---- MODULE Spec2Model ----
(***************************************************************************)
(* Verification model of autogodpack: the multi-instance supervisor        *)
(* (core/multi_bot_manager.py), the per-instance controller loop and its   *)
(* stop flag (core/bot.py), and the procedural battle pipeline with its    *)
(* catalog search (src/battle_bot.py).                                     *)
(*                                                                         *)
(* State machines sharing this module, each with its own variables:        *)
(*   Spec / FairSpec  : the supervisor, its slots, the BattleBot objects   *)
(*                      and their controller threads at wait-loop level.   *)
(*   SpecFleet        : the supervisor with all MAX_BOTS slots, each       *)
(*                      thread saving to the persisted document.           *)
(*   SpecSearch       : one controller thread executing                    *)
(*                      handle_battle_selection_screen and                 *)
(*                      handle_expansion_selection statement by statement  *)
(*                      against a nondeterministic device.                 *)
(*   SpecClassify     : both screen classifiers over sets of markers;      *)
(*   SpecLayout       : the same over the folder names of the templates.   *)
(*   SpecPersist      : save and load of the persisted document;           *)
(*   SpecPersistFault : the same with writes that can fail.                *)
(*   SpecSetup        : handle_battle_setup_screen and                     *)
(*                      wait_for_battle_completion.                        *)
(*   SpecReset        : the reset marker and the callers of                *)
(*                      check_reset_flag.                                  *)
(*   SpecLoop         : BattleBot.run, run_cycle and the dispatch of       *)
(*                      run_battle_cycle on the classified screen.         *)
(*   SpecManager      : the table of BotInstance objects, start, stop,     *)
(*                      create, remove, status queries and the threads.    *)
(*   SpecLocate       : find_expansion_in_screen and find_hourglass,       *)
(*                      their scrolls, resets and captures.                *)
(*   SpecPair         : two controller threads side by side, their         *)
(*                      thread-local device address and slot id and the    *)
(*                      file operations of save_completed_expansions.      *)
(***************************************************************************)
EXTENDS Integers, Sequences, FiniteSets, TLC

\* ---------------------------------------------------------------- bounds
\* Number of supervisor slots explored (the program allows MAX_BOTS).
NumSlots == 2
\* Number of series-A catalog entries explored (the program lists 11).
NumSeriesA == 2

\* ------------------------------------------------------ program constants
MAX_BOTS == 4

EXPANSIONS_SERIES_A_ALL ==
    <<"GA", "MI", "STS", "TL", "SR", "CG", "EC", "EG", "WSS", "SS", "DPex">>

Min(a, b) == IF a < b THEN a ELSE b

EXPANSIONS_SERIES_A ==
    SubSeq(EXPANSIONS_SERIES_A_ALL, 1, Min(NumSeriesA, Len(EXPANSIONS_SERIES_A_ALL)))

EXPANSIONS_SERIES_B == <<"MR", "CB">>

\* ExpansionKey: (series, name), serialised by the program as "<series>_<name>".
ExpansionKey(series, name) == <<series, name>>

SeqRange(q) == {q[i] : i \in 1..Len(q)}

KeysA == {ExpansionKey("A", n) : n \in SeqRange(EXPANSIONS_SERIES_A)}
KeysB == {ExpansionKey("B", n) : n \in SeqRange(EXPANSIONS_SERIES_B)}
Keys == KeysA \cup KeysB

\* Slot ids the supervisor accepts, and identities for BattleBot objects.
SlotIds == 0..(MAX_BOTS - 1)
RunIds == 1..MAX_BOTS
NoRun == 0

\* Slots and runs explored by Spec.
Slots == 0..(Min(NumSlots, MAX_BOTS) - 1)

\* ---------------------------------------------------------------- state
VARIABLES
    \* MultiBotManager / BotInstance
    bots,            \* keys of MultiBotManager.bots
    is_running,      \* BotInstance.is_running of the instance held in a slot
    inst_bot,        \* BotInstance.bot: the BattleBot (run) it holds, NoRun = None
    rm_pending,      \* slots whose remove_bot is inside thread.join(timeout)
    \* BattleBot objects and their threads (a run = one BattleBot + its thread)
    run_slot,        \* BattleBot.slot_id
    stop_flag,       \* BattleBot._stop_flag
    pc,              \* position of the run's thread
    orphan,          \* the BotInstance owning the run was discarded
    wait_bot,        \* bot_instance captured by the wait function the thread is in
    \* module-level state of bot.py / battle_bot.py
    closure_bot,     \* bot_instance captured by the installed patched_wait_* functions
    registry,        \* bot._active_bot_instances (thread of run r -> run r)
    \* files
    doc,             \* completed_expansions.json
    reset_flag,      \* reset_expansions.flag exists
    \* the catalog search of one controller thread (SpecSearch)
    frame,           \* its local variables
    obs,             \* what it was seen doing in the current cycle
    \* observation
    tick,            \* flips on every poll that re-enters an unbounded wait loop
    \* functions and handlers exercised on their own
    cls,             \* a frame's matched markers and what the classifiers return
    pst,             \* one persistence call: its arguments and what it returned
    bs,              \* handle_battle_setup_screen / the wait's re-tap: locals and history
    rst,             \* the callers of check_reset_flag and the resets they made
    lp,              \* BattleBot.run / run_cycle / run_battle_cycle of one thread
    mg,              \* one BotInstance table: start, stop, create, status queries
    fx,              \* find_expansion_in_screen / find_hourglass run on their own
    cc               \* two controller threads side by side: bindings and saves

supVars == <<bots, is_running, inst_bot, rm_pending, run_slot, stop_flag, pc,
             orphan, wait_bot, closure_bot, registry, doc, reset_flag, frame, obs,
             tick>>

otherVars == <<cls, pst, bs, rst, lp, mg, fx, cc>>

vars == <<supVars, otherVars>>

\* ------------------------------------------------- persisted document
\* The file completed_expansions.json by its logical shape:
\*   absent  - no file;            empty   - a blank file;
\*   corrupt - not valid JSON;     legacy  - {"completed": [...]};
\*   other   - valid JSON with neither "bots" nor "completed";
\*   multi   - {"bots": {"<1-indexed slot>": {"completed": [...]}}}.
EmptyBots == [k \in {} |-> {}]

MkDoc(f, b, c) == [fmt |-> f, bots |-> b, completed |-> c]

AbsentDoc == MkDoc("absent", EmptyBots, {})

\* A lookup under the slot's own number.
ZeroIndexed(slot) == slot

\* _get_slot_id_from_serial for a thread whose thread-local slot id is set,
\* then json_slot_id = slot_id + 1.
JsonSlot(slot) == slot + 1

\* save_completed_expansions, lines 724-760: read the whole document, bring
\* it to the multi-slot shape, replace the caller's entry, write it back.
ExistingBots(d) ==
    CASE d.fmt = "multi"  -> d.bots
      [] d.fmt = "legacy" -> [k \in {1} |-> d.completed]
      [] OTHER            -> EmptyBots

\* A write of the caller's entry alone.
OnlyCaller(b, slot, completed_set) == [k \in {JsonSlot(slot)} |-> completed_set]

MergeBots(b, slot, completed_set) ==
    [k \in (DOMAIN b) \cup {JsonSlot(slot)} |->
        IF k = JsonSlot(slot) THEN completed_set ELSE b[k]]

save_completed_expansions(d, slot, completed_set) ==
    MkDoc("multi", MergeBots(ExistingBots(d), slot, completed_set), {})

\* load_completed_expansions: the set it returns ...
load_completed_expansions(d, slot) ==
    CASE d.fmt = "multi"  ->
            IF JsonSlot(slot) \in DOMAIN d.bots THEN d.bots[JsonSlot(slot)] ELSE {}
      [] d.fmt = "legacy" -> d.completed
      [] OTHER            -> {}

\* ... and the document it leaves: a file that does not parse is replaced by
\* save_completed_expansions(set()) (lines 709-713).
DocAfterLoad(d, slot) ==
    IF d.fmt = "corrupt" THEN save_completed_expansions(d, slot, {}) ELSE d

\* A reset that leaves the document as it is.
ResetKeepsSet(d, slot) == d

\* reset_completed_expansions
reset_completed_expansions(d, slot) == save_completed_expansions(d, slot, {})

\* StatePersistence.reset_expansions(slot_id) with a slot id, as called from
\* BattleBot.__init__ through check_reset_flag: load_multi_bot_expansions,
\* reset_bot (only an entry that exists), save_multi_bot_expansions.
\* from_legacy_dict puts a legacy list under slot 0 before the reset.
StatePersistence_reset_expansions(d, slot) ==
    LET b == CASE d.fmt = "multi"  -> d.bots
               [] d.fmt = "legacy" -> [k \in {1} |-> d.completed]
               [] d.fmt = "other"  -> [k \in {1} |-> {}]
               [] OTHER            -> EmptyBots
    IN  MkDoc("multi",
              [k \in DOMAIN b |-> IF k = JsonSlot(slot) THEN {} ELSE b[k]], {})

DocSlots(d) == IF d.fmt = "multi" THEN {k - 1 : k \in DOMAIN d.bots} ELSE {}

\* ------------------------------------------------ the search's locals
NoKey == <<>>

\* Local variables of handle_expansion_selection and of the functions it
\* calls: completed_expansions, the series and position of the loop over the
\* catalog, the retry counter, find_hourglass's scroll_count, its caller and
\* whether it returned a position.
Frame0 ==
    [completed |-> {}, series |-> "A", idx |-> 0, attempt |-> 0,
     scroll_count |-> 0, fh_caller |-> "-", pos |-> FALSE]

\* What the controller was seen doing in the current cycle:
\*   invoked     handle_expansion_selection was called,
\*   from_hbs    ... by handle_battle_selection_screen, no hourglass in sight,
\*   start_set   the slot's persisted completion set at that call,
\*   stop_seen   a check_stop_flag() of this cycle returned True,
\*   input_after_stop  a tap or swipe was sent after that (kept for good),
\*   attempting  the entry check_expansion_for_hourglass is working on,
\*   entered     the entry select_expansion tapped and saw the screen leave
\*               the catalog for, in the current attempt,
\*   gave_up     the last entry whose attempts all failed,
\*   ran_a       the loop over series A was entered,
\*   touched_b   switch_to_series("B") was called,
\*   reached_b   ... and returned True,
\*   did_reset   reset_completed_expansions was called,
\*   prev_reset  the search invocation before this cycle's called it,
\*   prev_full   ... and had found every key of the catalog in the set,
\*   fh_end      how the last find_hourglass ended: "found", "exhausted" (no
\*               match after the last scroll), "stopped", or "tap_failed"
\*               once the tap on the position it returned failed,
\*   marked_how  fh_end when the last entry was added to the completion set,
\*   result      what the search returned: "battle", "none" or "-" (not yet),
\*   cycle       what run_battle_cycle returned: "True", "False" or "-",
\*   ended       how it came to return: "stopped", "no_battle" (the search or
\*               the selection handler returned False), "step_failed",
\*               "defeat_flow" or "rewards_flow".
Obs0 ==
    [invoked |-> FALSE, from_hbs |-> FALSE, start_set |-> {}, stop_seen |-> FALSE,
     input_after_stop |-> FALSE, attempting |-> NoKey, entered |-> NoKey,
     gave_up |-> NoKey, ran_a |-> FALSE, touched_b |-> FALSE, reached_b |-> FALSE,
     did_reset |-> FALSE, prev_reset |-> FALSE, prev_full |-> FALSE,
     fh_end |-> "-", marked_how |-> "-", result |-> "-", cycle |-> "-", ended |-> "-"]

\* ------------------------------------- functions exercised on their own
\* The value of a variable no call has written yet.
Unset == "-"

\* detect_current_battle_screen / StateMachine.detect_current_screen: whether
\* the capture succeeded, the markers whose template matched the captured
\* frame (matches it wherever the template file is), the folder names of the
\* template tree, and what either function returned.
Cls0 ==
    [captured |-> TRUE, found |-> {}, layout |-> "both", battle_bot |-> Unset,
     state_machine |-> Unset]

\* Calls into the persistence code on one document: the in-memory state m
\* the document was written from, the slot and set arguments, the document
\* before the save, which implementation saved and which loaded, what the
\* load returned, and MultiBotExpansionState.from_dict(to_dict(m)).
\* faults tells whether the file system may refuse a write in this run,
\* failed_by is the implementation whose save could not write the file,
\* load_write_failed tells that the write a load makes for a corrupt document
\* failed, and raised that the last call raised to its caller.
Pst0 ==
    [m |-> EmptyBots, slot |-> 0, arg |-> {}, before |-> AbsentDoc, saved_by |-> Unset,
     loaded_by |-> Unset, ret |-> {}, rt |-> EmptyBots, rt_done |-> FALSE,
     faults |-> FALSE, failed_by |-> Unset, load_write_failed |-> FALSE, raised |-> FALSE]

\* What the last iteration of the loop of wait_for_battle_completion had
\* before it: the stop flag, whether the capture succeeded, whether it showed
\* the result marker, what detect_current_battle_screen returned, whether the
\* "still on setup" test passed, is_in_battle, whether the capture showed the
\* auto-off marker and whether the tap it sent was delivered.
NoPoll ==
    [stop |-> FALSE, ok |-> FALSE, result |-> FALSE, detected |-> Unset, on_setup |-> FALSE,
     in_battle |-> FALSE, auto_off |-> FALSE, tapped |-> FALSE]

\* handle_battle_setup_screen followed by wait_for_battle_completion: the
\* position in them, which template files exist, what the last capture
\* inspected for the automation marker showed, the taps sent so far, the
\* verification captures that still showed the marker, whether a tap on the
\* toggle was not delivered, what each function returned, and the last
\* iteration of the wait (seen).
Bs0 ==
    [at |-> Unset, templates |-> {}, basis |-> Unset, on_taps |-> 0, verify_off |-> 0,
     battle_taps |-> 0, bad_tap |-> FALSE, ret |-> Unset, polls |-> 0,
     battle_started |-> FALSE, reenables |-> 0, wret |-> Unset, tap_failed |-> FALSE,
     seen |-> NoPoll]

\* check_reset_flag as called by the controller threads of two slots and by
\* a caller with no slot: where each caller is, the implementation it is in,
\* the checks it has left, the markers placed and the resets made so far.
NoSlot == 0 - 1

ResetCallers == {0, 1, NoSlot}

Rst0 ==
    [at |-> [c \in ResetCallers |-> "idle"], impl |-> [c \in ResetCallers |-> Unset],
     left |-> [c \in ResetCallers |-> 0], markers |-> 0, resets |-> 0]

\* BattleBot.run on one controller thread: where it is, its _stop_flag, the
\* screen run_battle_cycle classified when it was invoked (first) and the one
\* it last dispatched on (class), the handlers run since that dispatch, the
\* steps the dispatched branch still has to make (todo), whether that branch
\* tests the stop flag between handlers (checks), what run_battle_cycle and
\* run_cycle returned, whether run_battle_cycle was invoked by this call of
\* run_cycle, whether run_cycle found the flag set on entry, whether the flag
\* was set when it returned (aborted), what the cycle
\* before returned, and why run left its loop.
Lp0 ==
    [at |-> Unset, stop |-> FALSE, first |-> Unset, class |-> Unset, handlers |-> <<>>,
     todo |-> <<>>, checks |-> FALSE, rbc |-> Unset, result |-> Unset, invoked |-> FALSE,
     entered_stopped |-> FALSE, aborted |-> FALSE, raised |-> FALSE, prev |-> Unset, exit |-> Unset]

\* MultiBotManager: its table of BotInstance objects (bots), the live
\* controller threads of each slot (threads) and the last call made (last).
NoCall ==
    [op |-> Unset, slot |-> 0, args |-> Unset, ret |-> Unset, why |-> Unset, launched |-> 0,
     probed |-> FALSE, probed_stopped |-> FALSE]

Mg0 == [bots |-> <<>>, threads |-> [s \in SlotIds |-> <<>>], last |-> NoCall]

\* find_expansion_in_screen or find_hourglass called on its own: which of the
\* two (fn), where it is (at), the stop flag, whether check_stop_flag() was
\* called since the last tap or scroll (checked) and whether a tap or scroll
\* was ever made without that (unchecked_input), the locals scroll_count and
\* reset_attempt, the scroll_down calls of the current pass (scrolls), the
\* close-and-reopen resets begun (resets), the captures taken (captures), the
\* outcome of the last capture (shot) and the value returned (ret).
Fx0 ==
    [fn |-> Unset, at |-> Unset, stop |-> FALSE, checked |-> FALSE,
     unchecked_input |-> FALSE, scroll_count |-> 0, reset_attempt |-> 0, scrolls |-> 0,
     resets |-> 0, captures |-> 0, shot |-> Unset, ret |-> Unset]

\* Two controller threads side by side: the global ADB_SERIAL, the device
\* address given to each slot, each thread's thread-local values and position
\* in save_completed_expansions, and the sets each slot held or wrote.
Cc0 ==
    [at |-> Unset, saves |-> 0, restarts |-> 0, ADB_SERIAL |-> 0, device_serial |-> <<>>, th |-> <<>>, held |-> <<>>]

OtherInit ==
    /\ cls = Cls0
    /\ pst = Pst0
    /\ bs = Bs0
    /\ rst = Rst0
    /\ lp = Lp0
    /\ mg = Mg0
    /\ fx = Fx0
    /\ cc = Cc0

\* ---------------------------------------------------- supervisor machine
CatalogKeys ==
    [i \in 1..(Len(EXPANSIONS_SERIES_A) + Len(EXPANSIONS_SERIES_B)) |->
        IF i <= Len(EXPANSIONS_SERIES_A)
        THEN ExpansionKey("A", EXPANSIONS_SERIES_A[i])
        ELSE ExpansionKey("B", EXPANSIONS_SERIES_B[i - Len(EXPANSIONS_SERIES_A)])]

\* Runs whose BotInstance is the one currently held in slot s.
RunsOf(s) == {r \in RunIds : pc[r] # "unborn" /\ run_slot[r] = s /\ ~orphan[r]}

SupInit ==
    /\ bots = {}
    /\ is_running = [s \in SlotIds |-> FALSE]
    /\ inst_bot = [s \in SlotIds |-> NoRun]
    /\ rm_pending = {}
    /\ run_slot = [r \in RunIds |-> 0]
    /\ stop_flag = [r \in RunIds |-> FALSE]
    /\ pc = [r \in RunIds |-> "unborn"]
    /\ orphan = [r \in RunIds |-> FALSE]
    /\ wait_bot = [r \in RunIds |-> NoRun]
    /\ closure_bot = NoRun
    /\ registry = {}
    /\ doc = AbsentDoc
    /\ reset_flag \in BOOLEAN
    /\ tick = FALSE
    /\ frame = Frame0
    /\ obs = Obs0

\* BotInstance.stop (lines 126-141) applied to the instances in the slots S:
\* it returns at once for an instance that is not running and holds no bot.
StopNoop(s) == ~is_running[s] /\ inst_bot[s] = NoRun

IsRunningAfterStop(S) ==
    [s \in SlotIds |-> IF s \in S /\ ~StopNoop(s) THEN FALSE ELSE is_running[s]]

\* BattleBot.stop: self._stop_flag = True, on the bot the instance holds.
FlagsAfterStop(S) ==
    [r \in RunIds |-> IF \E s \in S : inst_bot[s] = r THEN TRUE ELSE stop_flag[r]]

\* MultiBotManager.create_bot with a valid slot id and device address.
\* An occupied slot is stopped first and its BotInstance replaced.
create_bot(s) ==
    /\ s >= 0 /\ s < MAX_BOTS
    /\ s \notin rm_pending
    /\ stop_flag' = FlagsAfterStop(IF s \in bots THEN {s} ELSE {})
    /\ bots' = bots \cup {s}
    /\ is_running' = [is_running EXCEPT ![s] = FALSE]
    /\ inst_bot' = [inst_bot EXCEPT ![s] = NoRun]
    /\ orphan' = [r \in RunIds |-> orphan[r] \/ r \in RunsOf(s)]
    /\ UNCHANGED <<rm_pending, run_slot, pc, wait_bot, closure_bot,
                   registry, doc, reset_flag, tick,
                   frame, obs, otherVars>>

\* The bot_instance the freshly built BattleBot leaves in the patched
\* wait functions: _patch_battle_bot_functions replaces the module's
\* wait_for_battle_completion and wait_and_tap_template on every construction.
PatchedClosure(r) == r

\* Identity of the BattleBot object under construction. Object identities
\* are arbitrary: the slot's own number when free, else the smallest free one.
Unborn == {r \in RunIds : pc[r] = "unborn"}

NewRunId(s) ==
    IF s + 1 \in Unborn THEN s + 1
    ELSE CHOOSE r \in Unborn : \A q \in Unborn : r <= q

\* MultiBotManager.start_bot -> BotInstance.start (lines 56-104), the path
\* that launches a thread. A start that finds the instance running, the
\* device unreachable or the template directory missing returns False and
\* changes none of the variables here.
start_bot(s) ==
    /\ s \in bots /\ s \notin rm_pending
    /\ ~is_running[s]
    /\ Unborn # {}
    /\ LET r == NewRunId(s) IN
        \* BattleBot.__init__: check_reset_flag, _stop_flag = False,
        \* _patch_battle_bot_functions, _setup_battle_bot_stop_checker
        /\ run_slot' = [run_slot EXCEPT ![r] = s]
        /\ doc' = IF reset_flag THEN StatePersistence_reset_expansions(doc, s) ELSE doc
        /\ reset_flag' = FALSE
        /\ stop_flag' = [stop_flag EXCEPT ![r] = FALSE]
        /\ closure_bot' = PatchedClosure(r)
        \* is_running = True, thread started
        /\ inst_bot' = [inst_bot EXCEPT ![s] = r]
        /\ is_running' = [is_running EXCEPT ![s] = TRUE]
        /\ pc' = [pc EXCEPT ![r] = "start"]
    /\ UNCHANGED <<bots, rm_pending, orphan, wait_bot, registry, tick,
                   frame, obs, otherVars>>

\* MultiBotManager.stop_bot -> BotInstance.stop: sets the flag, does not wait.
stop_bot(s) ==
    /\ s \in bots /\ s \notin rm_pending
    /\ ~StopNoop(s)
    /\ is_running' = IsRunningAfterStop({s})
    /\ stop_flag' = FlagsAfterStop({s})
    /\ UNCHANGED <<bots, inst_bot, rm_pending, run_slot, pc, orphan, wait_bot,
                   closure_bot, registry, doc, reset_flag, tick,
                   frame, obs, otherVars>>

\* MultiBotManager.stop_all: stop_bot on every slot held, no waiting.
stop_all ==
    /\ \E s \in bots \ rm_pending : ~StopNoop(s)
    /\ is_running' = IsRunningAfterStop(bots \ rm_pending)
    /\ stop_flag' = FlagsAfterStop(bots \ rm_pending)
    /\ UNCHANGED <<bots, inst_bot, rm_pending, run_slot, pc, orphan, wait_bot,
                   closure_bot, registry, doc, reset_flag, tick,
                   frame, obs, otherVars>>

\* MultiBotManager.remove_bot, first half (lines 243-258): stop_bot, then the
\* caller enters bot_thread.join(timeout=3.0) if the thread is alive.
remove_bot_begin(s) ==
    /\ s \in bots /\ s \notin rm_pending
    /\ is_running' = IsRunningAfterStop({s})
    /\ stop_flag' = FlagsAfterStop({s})
    /\ rm_pending' = rm_pending \cup {s}
    /\ UNCHANGED <<bots, inst_bot, run_slot, pc, orphan, wait_bot,
                   closure_bot, registry, doc, reset_flag, tick,
                   frame, obs, otherVars>>

\* A join without the timeout: it returns once the thread has finished.
JoinNoTimeout(s) == IF inst_bot[s] = NoRun THEN TRUE ELSE pc[inst_bot[s]] = "done"

\* bot_thread.join(timeout=3.0) returns: the thread has finished, or the
\* timeout has elapsed, whichever comes first.
JoinReturns(s) == TRUE

\* MultiBotManager.remove_bot, second half (lines 260-286): the flag is set
\* once more and the slot is deleted.
remove_bot_finish(s) ==
    /\ s \in rm_pending
    /\ JoinReturns(s)
    /\ stop_flag' = [r \in RunIds |-> IF inst_bot[s] = r THEN TRUE ELSE stop_flag[r]]
    /\ bots' = bots \ {s}
    /\ rm_pending' = rm_pending \ {s}
    /\ orphan' = [r \in RunIds |-> orphan[r] \/ r \in RunsOf(s)]
    /\ is_running' = [is_running EXCEPT ![s] = FALSE]
    /\ inst_bot' = [inst_bot EXCEPT ![s] = NoRun]
    /\ UNCHANGED <<run_slot, pc, wait_bot, closure_bot, registry,
                   doc, reset_flag, tick,
                   frame, obs, otherVars>>

\* -------------------------------------------------- controller threads
\* patched_check_stop_flag (bot.py 46-60) called on the thread of run r: the
\* flag of the BattleBot registered for the calling thread. Controller
\* threads call it between registering and unregistering only, so the
\* fallback for an unregistered thread is outside this machine.
check_stop_flag(r) == r \in registry /\ stop_flag[r]

\* The test `if bot_instance._stop_flag` inside patched_wait_and_tap_template
\* and patched_wait_for_battle_completion, bot_instance being the object the
\* function captured when it was defined.
ClosureStop(b) == stop_flag[b]

\* BotInstance._run_bot's finally: self.is_running = False, on the
\* BotInstance that started the thread (no longer in the table when orphaned).
SetInst(f, r, v) == IF orphan[r] THEN f ELSE [f EXCEPT ![run_slot[r]] = v]

\* BattleBot.run leaves (finally, lines 551-565) and _run_bot returns.
RunExit(r) ==
    /\ registry' = registry \ {r}
    /\ is_running' = SetInst(is_running, r, FALSE)
    /\ pc' = [pc EXCEPT ![r] = "done"]

\* BattleBot.run, lines 444-487: the flag is assigned False, the thread is
\* registered, the template directory is tested.
RunEnter(r) ==
    /\ pc[r] = "start"
    /\ stop_flag' = [stop_flag EXCEPT ![r] = FALSE]
    /\ \E template_dir_exists \in BOOLEAN :
        IF template_dir_exists
        THEN /\ registry' = registry \cup {r}
             /\ pc' = [pc EXCEPT ![r] = "loop"]
             /\ UNCHANGED is_running
        ELSE /\ registry' = registry \ {r}
                      /\ is_running' = SetInst(is_running, r, FALSE)
             /\ pc' = [pc EXCEPT ![r] = "done"]
    /\ UNCHANGED <<bots, inst_bot, rm_pending, run_slot, orphan, wait_bot,
                   closure_bot, doc, reset_flag, tick,
                   frame, obs, otherVars>>

\* Screens detect_current_battle_screen can report, by the wait the cycle
\* enters for them (run_battle_cycle, lines 2188-2405).
BattleScreens == {"select_expansion", "battle_setup", "battle_in_progress", "unknown"}

PhaseOf(screen) ==
    CASE screen = "select_expansion"   -> "search"
      [] screen = "battle_setup"       -> "wtt"
      [] screen = "battle_in_progress" -> "wbc"
      [] OTHER                         -> "loop"

\* Top of the while loop of BattleBot.run (lines 492-505), run_cycle up to
\* run_battle_cycle's screen detection. Every test on the way reads the
\* thread's own flag. A cycle that ended, with whatever outcome, comes back
\* here through the checks of lines 508, 522, 529, 536.
LoopTop(r) ==
    /\ pc[r] \in {"loop", "stopped"}
    /\ IF stop_flag[r]
       THEN /\ RunExit(r)
            /\ UNCHANGED wait_bot
       ELSE /\ \E screen \in BattleScreens :
                /\ pc' = [pc EXCEPT ![r] = PhaseOf(screen)]
                /\ wait_bot' = [wait_bot EXCEPT ![r] =
                       IF PhaseOf(screen) = "wbc" THEN closure_bot ELSE NoRun]
            /\ UNCHANGED <<registry, is_running,
                   frame, obs, otherVars>>
    /\ UNCHANGED <<bots, inst_bot, rm_pending, run_slot, stop_flag, orphan,
                   closure_bot, doc, reset_flag, tick,
                   frame, obs, otherVars>>

\* The polls of find_hourglass and handle_expansion_selection: each reads
\* check_stop_flag(); the search ends stopped, with a battle found (the
\* battle setup follows) or with none.
SearchPoll(r) ==
    /\ pc[r] = "search"
    /\ IF check_stop_flag(r)
       THEN pc' = [pc EXCEPT ![r] = "stopped"]
       ELSE \E found \in BOOLEAN :
                pc' = [pc EXCEPT ![r] = IF found THEN "wtt" ELSE "loop"]
    /\ UNCHANGED <<bots, is_running, inst_bot, rm_pending, run_slot, stop_flag, orphan,
                   wait_bot, closure_bot, registry, doc, reset_flag, tick,
                   frame, obs, otherVars>>

\* patched_wait_and_tap_template (bot.py 384-432), called through the module
\* attribute, hence the function installed at the time of the call. It has a
\* timeout; it ends stopped, tapped (the battle starts) or timed out.
WaitAndTap(r) ==
    /\ pc[r] = "wtt"
    /\ IF ClosureStop(closure_bot)
       THEN /\ pc' = [pc EXCEPT ![r] = "stopped"]
            /\ UNCHANGED wait_bot
       ELSE \E tapped \in BOOLEAN :
            /\ pc' = [pc EXCEPT ![r] = IF tapped THEN "wbc" ELSE "loop"]
            /\ wait_bot' = [wait_bot EXCEPT ![r] =
                                IF tapped THEN closure_bot ELSE NoRun]
    /\ UNCHANGED <<bots, is_running, inst_bot, rm_pending, run_slot, stop_flag,
                   orphan, closure_bot, registry, doc, reset_flag, tick,
                   frame, obs, otherVars>>

\* One poll of patched_wait_for_battle_completion(max_wait_time=None)
\* (bot.py 245-378): no timeout; the function in progress keeps the
\* bot_instance it captured.
WaitBattlePoll(r) ==
    /\ pc[r] = "wbc"
    /\ IF ClosureStop(wait_bot[r])
       THEN /\ pc' = [pc EXCEPT ![r] = "stopped"]
            /\ wait_bot' = [wait_bot EXCEPT ![r] = NoRun]
            /\ UNCHANGED tick
       ELSE \E battle_over \in BOOLEAN :
            IF battle_over
            THEN /\ pc' = [pc EXCEPT ![r] = "loop"]
                 /\ wait_bot' = [wait_bot EXCEPT ![r] = NoRun]
                 /\ UNCHANGED tick
            ELSE /\ tick' = ~tick
                 /\ UNCHANGED <<pc, wait_bot,
                   frame, obs, otherVars>>
    /\ UNCHANGED <<bots, is_running, inst_bot, rm_pending, run_slot, stop_flag,
                   orphan, closure_bot, registry, doc, reset_flag,
                   frame, obs, otherVars>>

ThreadStep(r) ==
    \/ RunEnter(r)
    \/ LoopTop(r)
    \/ SearchPoll(r)
    \/ WaitAndTap(r)
    \/ WaitBattlePoll(r)

\* Each slot is created and started once in a behaviour; slots are
\* interchangeable, so they are started in the order of their numbers.
NeverStarted(s) == \A r \in RunIds : pc[r] # "unborn" => run_slot[r] # s

StartedInOrder(s) == s = 0 \/ ~NeverStarted(s - 1)

Init == SupInit /\ OtherInit

Next ==
    \/ \E s \in Slots : s \notin bots /\ NeverStarted(s) /\ create_bot(s)
    \/ \E s \in Slots : NeverStarted(s) /\ StartedInOrder(s) /\ start_bot(s)
    \/ \E s \in Slots : stop_bot(s)
    \/ stop_all
    \/ \E s \in Slots : remove_bot_begin(s)
    \/ \E s \in Slots : remove_bot_finish(s)
    \/ \E r \in RunIds : RunEnter(r)
    \/ \E r \in RunIds : LoopTop(r)
    \/ \E r \in RunIds : SearchPoll(r)
    \/ \E r \in RunIds : WaitAndTap(r)
    \/ \E r \in RunIds : WaitBattlePoll(r)

Spec == Init /\ [][Next]_vars

\* The scheduler runs every live controller thread again and again.
FairSpec == Spec /\ \A r \in RunIds : WF_vars(ThreadStep(r))

\* ------------------------------------------------------- the full fleet
\* MAX_BOTS slots against devices that sit on the catalog screen: the
\* supervisor's operations in every order and interleaving with the
\* controller threads' run loops.
FirstKey == CatalogKeys[1]

\* One iteration of the while loop of BattleBot.run (lines 492-537) with the
\* cycle going through handle_expansion_selection: every stop test reads the
\* thread's own flag; the search may mark an entry complete (load, add, save
\* under the thread's slot) and finds no battle.
RunLoopIteration(r) ==
    /\ pc[r] = "loop"
    /\ IF stop_flag[r]
       THEN /\ RunExit(r)
            /\ UNCHANGED doc
       ELSE /\ \E mark \in BOOLEAN :
                doc' = IF mark
                       THEN save_completed_expansions(
                                DocAfterLoad(doc, run_slot[r]), run_slot[r],
                                load_completed_expansions(doc, run_slot[r])
                                    \cup {FirstKey})
                       ELSE DocAfterLoad(doc, run_slot[r])
            /\ UNCHANGED <<pc, registry, is_running,
                   frame, obs, otherVars>>
    /\ UNCHANGED <<bots, inst_bot, rm_pending, run_slot, stop_flag, orphan, wait_bot,
                   closure_bot, reset_flag, tick,
                   frame, obs, otherVars>>

FleetThreadStep(r) == RunEnter(r) \/ RunLoopIteration(r)

FleetNext ==
    \/ \E s \in SlotIds : s \notin bots /\ NeverStarted(s) /\ create_bot(s)
    \/ \E s \in SlotIds : NeverStarted(s) /\ StartedInOrder(s) /\ start_bot(s)
    \/ \E s \in SlotIds : stop_bot(s)
    \/ stop_all
    \/ \E s \in SlotIds : remove_bot_begin(s)
    \/ \E s \in SlotIds : remove_bot_finish(s)
    \/ \E r \in RunIds : RunEnter(r)
    \/ \E r \in RunIds : RunLoopIteration(r)

SpecFleet == Init /\ [][FleetNext]_vars

\* --------------------------------------------------- the catalog search
\* One controller thread, SearchRun in slot SearchSlot, executing
\* handle_battle_selection_screen and handle_expansion_selection against a
\* device that may answer every capture, tap and navigation either way.
\* A step runs from one check_stop_flag() to the next; stop() may come
\* between any two steps. Writes of the document succeed.
SearchSlot == Min(NumSlots, MAX_BOTS) - 1
SearchRun == SearchSlot + 1

\* find_hourglass(max_scrolls=3) and max_attempts_per_expansion = 3
FH_MAX_SCROLLS == 3
MAX_ATTEMPTS_PER_EXPANSION == 3

Entries(series) == IF series = "A" THEN EXPANSIONS_SERIES_A ELSE EXPANSIONS_SERIES_B

KeyAt(series, i) == ExpansionKey(series, Entries(series)[i])

\* The slot's completion set as the persisted document holds it.
PersistedSet(d, slot) ==
    IF d.fmt = "multi" /\ JsonSlot(slot) \in DOMAIN d.bots
    THEN d.bots[JsonSlot(slot)] ELSE {}

\* The entry loops' test `if expansion_key in completed_expansions: continue`
NeverCompleted(key, completed) == FALSE

AlreadyCompleted(key, completed) == key \in completed

\* The lists the search builds before and after each pass (lines 1278-1282,
\* 1353-1357, 1376-1380, 1457-1461), as sets of keys.
AllOfSeriesA(completed) == KeysA

series_a_incomplete(completed) == {k \in KeysA : k \notin completed}

NoneIncomplete(completed) == {}

series_a_incomplete_after(completed) == {k \in KeysA : k \notin completed}

series_b_incomplete(completed) == {k \in KeysB : k \notin completed}

series_b_incomplete_after(completed) == {k \in KeysB : k \notin completed}

\* The branch `elif found_expansion:` that marks the entry complete, taken
\* when check_expansion_for_hourglass returned no hourglass.
MarksWithoutEntering(found_expansion, found_hourglass) == ~found_hourglass

MarksComplete(found_expansion, found_hourglass) == found_expansion /\ ~found_hourglass

\* A tap or swipe sent to the device, seen from the stop flag's side.
Input(o, sent) == [o EXCEPT !.input_after_stop = @ \/ (o.stop_seen /\ sent)]

SearchUnchanged ==
    UNCHANGED <<bots, is_running, inst_bot, rm_pending, run_slot, stop_flag, orphan,
                wait_bot, closure_bot, registry, reset_flag, tick, otherVars>>

\* A search that ended with a reset counts as a finished cycle.
TrueAfterReset(o, res) ==
    IF res = "battle" THEN "-" ELSE IF o.did_reset THEN "True" ELSE "False"

\* run_battle_cycle on the value of handle_expansion_selection() or
\* handle_battle_selection_screen(): it goes on with the battle when one was
\* found and returns False otherwise.
cycle_after_search(o, res) == IF res = "battle" THEN "-" ELSE "False"

\* The search (or the selection handler) returns to run_battle_cycle.
Return(r, o, res) ==
    /\ pc' = [pc EXCEPT ![r] = IF res = "battle" THEN "pipeline" ELSE "loop"]
    /\ frame' = Frame0
    /\ obs' = [o EXCEPT !.result = res, !.attempting = NoKey, !.entered = NoKey,
                        !.cycle = cycle_after_search(o, res),
                        !.ended = IF res = "battle" THEN "-"
                                  ELSE IF o.stop_seen THEN "stopped" ELSE "no_battle"]

\* handle_battle_selection_screen taps the hourglass it found itself and
\* returns the outcome of the tap.
HbsTap(r, tapped) ==
    /\ pc' = [pc EXCEPT ![r] = IF tapped THEN "pipeline" ELSE "loop"]
    /\ frame' = Frame0
    /\ obs' = [Input(obs, TRUE) EXCEPT !.cycle = IF tapped THEN "-" ELSE "False",
                                       !.ended = IF tapped THEN "-" ELSE "step_failed"]

\* A check_stop_flag() that returned True: the function returns False.
Stopped(r) == Return(r, [obs EXCEPT !.stop_seen = TRUE],
                     IF obs.invoked THEN "none" ELSE "-")

SearchScreens == {"battle_selection", "select_expansion", "unknown"}

NewCycle(o) ==
    [Obs0 EXCEPT !.input_after_stop = o.input_after_stop,
                 !.prev_reset = IF o.invoked THEN o.did_reset ELSE o.prev_reset,
                 !.prev_full = IF o.invoked THEN o.start_set = Keys ELSE o.prev_full]

\* Top of the run loop, run_cycle and run_battle_cycle up to the dispatch on
\* the detected screen (their stop tests read the thread's own flag).
SearchLoopTop(r) ==
    /\ pc[r] = "loop"
    /\ IF stop_flag[r]
       THEN /\ RunExit(r)
            /\ UNCHANGED <<frame, obs>>
       ELSE /\ \E screen \in SearchScreens :
                /\ pc' = [pc EXCEPT ![r] =
                        CASE screen = "battle_selection" -> "fh_top"
                          [] screen = "select_expansion" -> "hes_start"
                          [] OTHER -> "loop"]
                /\ frame' = [Frame0 EXCEPT !.fh_caller =
                                IF screen = "battle_selection" THEN "hbs" ELSE "-"]
            /\ obs' = NewCycle(obs)
            /\ UNCHANGED <<registry, is_running>>
    /\ UNCHANGED <<bots, inst_bot, rm_pending, run_slot, stop_flag, orphan, wait_bot,
                   closure_bot, doc, reset_flag, tick, otherVars>>

\* find_hourglass, lines 484-498 and 511-513: stop test, capture, match.
\* A failed capture repeats the iteration without counting it.
FhTop(r) ==
    /\ pc[r] = "fh_top"
    /\ IF check_stop_flag(r)
       THEN /\ pc' = [pc EXCEPT ![r] = frame.fh_caller]
            /\ frame' = [frame EXCEPT !.pos = FALSE]
            /\ obs' = [obs EXCEPT !.stop_seen = TRUE, !.fh_end = "stopped"]
       ELSE \E shot \in {"failed", "hourglass", "nothing"} :
            CASE shot = "failed" -> UNCHANGED <<pc, frame, obs>>
              [] shot = "hourglass" ->
                     /\ pc' = [pc EXCEPT ![r] = frame.fh_caller]
                     /\ frame' = [frame EXCEPT !.pos = TRUE]
                     /\ obs' = [obs EXCEPT !.fh_end = "found"]
              [] OTHER ->
                     IF frame.scroll_count < FH_MAX_SCROLLS
                     THEN /\ pc' = [pc EXCEPT ![r] = "fh_scroll"]
                          /\ UNCHANGED <<frame, obs>>
                     ELSE /\ pc' = [pc EXCEPT ![r] = frame.fh_caller]
                          /\ frame' = [frame EXCEPT !.pos = FALSE]
                          /\ obs' = [obs EXCEPT !.fh_end = "exhausted"]
    /\ UNCHANGED doc
    /\ SearchUnchanged

\* find_hourglass, lines 501-510: stop test, scroll_down, scroll_count += 1.
FhScroll(r) ==
    /\ pc[r] = "fh_scroll"
    /\ IF check_stop_flag(r)
       THEN /\ pc' = [pc EXCEPT ![r] = frame.fh_caller]
            /\ frame' = [frame EXCEPT !.pos = FALSE]
            /\ obs' = [obs EXCEPT !.stop_seen = TRUE, !.fh_end = "stopped"]
       ELSE /\ pc' = [pc EXCEPT ![r] = "fh_top"]
            /\ frame' = [frame EXCEPT !.scroll_count = @ + 1]
            /\ obs' = Input(obs, TRUE)
    /\ UNCHANGED doc
    /\ SearchUnchanged

\* handle_battle_selection_screen after find_hourglass (lines 1501-1529).
HbsAfterFh(r) ==
    /\ pc[r] = "hbs"
    /\ IF check_stop_flag(r)
       THEN Stopped(r)
       ELSE IF ~frame.pos
            THEN /\ pc' = [pc EXCEPT ![r] = "hes_start"]
                 /\ frame' = Frame0
                 /\ obs' = [obs EXCEPT !.from_hbs = TRUE]
            ELSE \E tapped \in BOOLEAN : HbsTap(r, tapped)
    /\ UNCHANGED doc
    /\ SearchUnchanged

\* handle_expansion_selection, lines 1258-1270: stop test, load, ensure the
\* catalog screen (which may tap the Expansions button on the way).
HesStart(r) ==
    /\ pc[r] = "hes_start"
    /\ LET o == [obs EXCEPT !.invoked = TRUE,
                            !.start_set = PersistedSet(doc, run_slot[r])]
       IN  IF check_stop_flag(r)
           THEN /\ Return(r, [o EXCEPT !.stop_seen = TRUE], "none")
                /\ UNCHANGED doc
           ELSE /\ doc' = DocAfterLoad(doc, run_slot[r])
                /\ \E on_catalog \in BOOLEAN, sent \in BOOLEAN :
                    IF on_catalog
                    THEN /\ pc' = [pc EXCEPT ![r] = "hes_series"]
                         /\ frame' = [Frame0 EXCEPT !.completed =
                                         load_completed_expansions(doc, run_slot[r])]
                         /\ obs' = Input(o, sent)
                    ELSE Return(r, Input(o, sent), "none")
    /\ SearchUnchanged

\* Lines 1272-1291: stop test, series_a_incomplete, switch_to_series("A").
HesSeries(r) ==
    /\ pc[r] = "hes_series"
    /\ IF check_stop_flag(r)
       THEN Stopped(r)
       ELSE IF series_a_incomplete(frame.completed) # {}
            THEN \E sent \in BOOLEAN :
                 /\ pc' = [pc EXCEPT ![r] = "exp_loop"]
                 /\ frame' = [frame EXCEPT !.series = "A", !.idx = 1]
                 /\ obs' = [Input(obs, sent) EXCEPT !.ran_a = TRUE]
            ELSE /\ pc' = [pc EXCEPT ![r] = "b_switch"]
                 /\ UNCHANGED <<frame, obs>>
    /\ UNCHANGED doc
    /\ SearchUnchanged

\* Head of `for expansion in EXPANSIONS_SERIES_x` (lines 1292-1313 and
\* 1399-1420): stop test, skip a completed entry, make sure of the screen.
ExpLoop(r) ==
    /\ pc[r] = "exp_loop"
    /\ IF frame.idx > Len(Entries(frame.series))
       THEN /\ pc' = [pc EXCEPT ![r] = IF frame.series = "A" THEN "a_done" ELSE "b_done"]
            /\ UNCHANGED <<frame, obs>>
       ELSE IF check_stop_flag(r)
            THEN Stopped(r)
            ELSE IF AlreadyCompleted(KeyAt(frame.series, frame.idx), frame.completed)
                 THEN /\ frame' = [frame EXCEPT !.idx = @ + 1]
                      /\ UNCHANGED <<pc, obs>>
                 ELSE \E on_catalog \in BOOLEAN, sent \in BOOLEAN :
                      /\ obs' = Input(obs, sent)
                      /\ IF on_catalog
                         THEN /\ pc' = [pc EXCEPT ![r] = "ceh"]
                              /\ frame' = [frame EXCEPT !.attempt = 0]
                         ELSE /\ frame' = [frame EXCEPT !.idx = @ + 1]
                              /\ UNCHANGED pc
    /\ UNCHANGED doc
    /\ SearchUnchanged

\* completed_expansions.add(expansion_key); save_completed_expansions(...);
\* break - on to the next entry.
Mark(r, o, key) ==
    /\ doc' = save_completed_expansions(doc, run_slot[r], frame.completed \cup {key})
    /\ frame' = [Frame0 EXCEPT !.completed = frame.completed \cup {key},
                               !.series = frame.series, !.idx = frame.idx + 1]
    /\ pc' = [pc EXCEPT ![r] = "exp_loop"]
    /\ obs' = [o EXCEPT !.attempting = NoKey, !.entered = NoKey, !.marked_how = o.fh_end]

\* The retry loop after check_expansion_for_hourglass returned without an
\* hourglass (lines 1330-1347, 1437-1454).
AfterCheck(r, o, key, found_expansion) ==
    IF MarksComplete(found_expansion, FALSE)
    THEN Mark(r, o, key)
    ELSE /\ UNCHANGED doc
         /\ IF frame.attempt < MAX_ATTEMPTS_PER_EXPANSION - 1
            THEN /\ pc' = [pc EXCEPT ![r] = "ceh"]
                 /\ frame' = [frame EXCEPT !.attempt = @ + 1, !.scroll_count = 0,
                                           !.fh_caller = "-", !.pos = FALSE]
                 /\ obs' = [o EXCEPT !.entered = NoKey]
            ELSE /\ pc' = [pc EXCEPT ![r] = "exp_loop"]
                 /\ frame' = [Frame0 EXCEPT !.completed = frame.completed,
                                            !.series = frame.series,
                                            !.idx = frame.idx + 1]
                 /\ obs' = [o EXCEPT !.attempting = NoKey, !.entered = NoKey,
                                     !.gave_up = key]

\* One attempt: ensure the screen on a retry, then
\* check_expansion_for_hourglass up to its call of find_hourglass (lines
\* 1107-1133) with select_expansion: the entry is not found, or tapped with
\* the screen staying on the catalog, or tapped and entered.
CheckExpansion(r) ==
    /\ pc[r] = "ceh"
    /\ LET key == KeyAt(frame.series, frame.idx)
           o   == [obs EXCEPT !.attempting = key]
       IN \E outcome \in {"not_found", "not_entered", "entered"} :
            IF outcome = "entered"
            THEN /\ pc' = [pc EXCEPT ![r] = "fh_top"]
                 /\ frame' = [frame EXCEPT !.scroll_count = 0, !.fh_caller = "ceh_ret",
                                           !.pos = FALSE]
                 /\ obs' = [Input(o, TRUE) EXCEPT !.entered = key]
                 /\ UNCHANGED doc
            ELSE AfterCheck(r, Input(o, outcome = "not_entered"), key, FALSE)
    /\ SearchUnchanged

\* check_expansion_for_hourglass after find_hourglass (lines 1135-1149): no
\* position - navigate back and return (True, False); a position - tap it.
CehAfterFh(r) ==
    /\ pc[r] = "ceh_ret"
    /\ LET key == KeyAt(frame.series, frame.idx) IN
       IF frame.pos
       THEN \E tap_ok \in BOOLEAN, sent \in BOOLEAN :
            IF tap_ok
            THEN /\ Return(r, Input(obs, TRUE), "battle")
                 /\ UNCHANGED doc
            ELSE AfterCheck(r, [Input(obs, sent) EXCEPT !.fh_end = "tap_failed"], key, TRUE)
       ELSE \E sent \in BOOLEAN : AfterCheck(r, Input(obs, sent), key, TRUE)
    /\ SearchUnchanged

\* reset_completed_expansions(); completed_expansions = set();
\* switch_to_series("A"); return False (lines 1382-1395, 1463-1476).
ResetAndReturn(r, o) ==
    /\ doc' = reset_completed_expansions(doc, run_slot[r])
    /\ \E sent \in BOOLEAN :
         Return(r, [Input(o, sent) EXCEPT !.did_reset = TRUE], "none")

\* After the loop over series A (lines 1349-1365): reload, and return if an
\* entry of series A is still unmarked.
ADone(r) ==
    /\ pc[r] = "a_done"
    /\ doc' = DocAfterLoad(doc, run_slot[r])
    /\ IF series_a_incomplete_after(load_completed_expansions(doc, run_slot[r])) # {}
       THEN Return(r, obs, "none")
       ELSE /\ pc' = [pc EXCEPT ![r] = "b_switch"]
            /\ frame' = [frame EXCEPT !.completed =
                             load_completed_expansions(doc, run_slot[r])]
            /\ UNCHANGED obs
    /\ SearchUnchanged

\* Lines 1367-1398: switch_to_series("B"), series_b_incomplete, reset if
\* none is left.
BSwitch(r) ==
    /\ pc[r] = "b_switch"
    /\ \E switched \in BOOLEAN, sent \in BOOLEAN :
        LET o == [Input(obs, sent) EXCEPT !.touched_b = TRUE, !.reached_b = switched]
        IN  IF ~switched
            THEN /\ Return(r, o, "none")
                 /\ UNCHANGED doc
            ELSE IF series_b_incomplete(frame.completed) = {}
                 THEN ResetAndReturn(r, o)
                 ELSE /\ pc' = [pc EXCEPT ![r] = "exp_loop"]
                      /\ frame' = [frame EXCEPT !.series = "B", !.idx = 1]
                      /\ obs' = o
                      /\ UNCHANGED doc
    /\ SearchUnchanged

\* After the loop over series B (lines 1456-1479).
BDone(r) ==
    /\ pc[r] = "b_done"
    /\ IF series_b_incomplete_after(frame.completed) = {}
       THEN ResetAndReturn(r, obs)
       ELSE /\ Return(r, obs, "none")
            /\ UNCHANGED doc
    /\ SearchUnchanged

\* The documents the search may find: none, or one holding any completion
\* set for its slot.
SearchDocs ==
    {AbsentDoc} \cup
    {MkDoc("multi", [k \in {JsonSlot(SearchSlot)} |-> X], {}) : X \in SUBSET Keys}

\* The state after create_bot, start_bot and the thread's entry into run().
SearchInit ==
    /\ bots = {SearchSlot}
    /\ is_running = [s \in SlotIds |-> s = SearchSlot]
    /\ inst_bot = [s \in SlotIds |-> IF s = SearchSlot THEN SearchRun ELSE NoRun]
    /\ rm_pending = {}
    /\ run_slot = [r \in RunIds |-> IF r = SearchRun THEN SearchSlot ELSE 0]
    /\ stop_flag = [r \in RunIds |-> FALSE]
    /\ pc = [r \in RunIds |-> IF r = SearchRun THEN "loop" ELSE "unborn"]
    /\ orphan = [r \in RunIds |-> FALSE]
    /\ wait_bot = [r \in RunIds |-> NoRun]
    /\ closure_bot = SearchRun
    /\ registry = {SearchRun}
    /\ doc \in SearchDocs
    /\ reset_flag = FALSE
    /\ tick = FALSE
    /\ frame = Frame0
    /\ obs = Obs0
    /\ OtherInit

\* run_battle_cycle once the hourglass was tapped: handle_battle_setup_screen,
\* wait_for_battle_completion, then the defeat flow or the result, rewards
\* and summary handlers; the first one that returns False ends the cycle.
PipelineSteps ==
    {"handle_battle_setup_screen", "wait_for_battle_completion", "handle_defeat_screen",
     "handle_result_screen", "handle_screens_4_5_6", "handle_screen_7"}

BattlePipeline(r) ==
    /\ pc[r] = "pipeline"
    /\ pc' = [pc EXCEPT ![r] = "loop"]
    /\ IF check_stop_flag(r)
       THEN obs' = [obs EXCEPT !.stop_seen = TRUE, !.cycle = "False", !.ended = "stopped"]
       ELSE \E failed \in PipelineSteps \cup {"none"}, defeat \in BOOLEAN :
              obs' = [obs EXCEPT
                        !.cycle = IF failed = "none" THEN "True" ELSE "False",
                        !.ended = IF failed # "none" THEN "step_failed"
                                  ELSE IF defeat THEN "defeat_flow" ELSE "rewards_flow"]
    /\ UNCHANGED <<frame, doc>>
    /\ SearchUnchanged

SearchNext ==
    \/ stop_bot(SearchSlot)
    \/ SearchLoopTop(SearchRun)
    \/ FhTop(SearchRun)
    \/ FhScroll(SearchRun)
    \/ HbsAfterFh(SearchRun)
    \/ HesStart(SearchRun)
    \/ HesSeries(SearchRun)
    \/ ExpLoop(SearchRun)
    \/ CheckExpansion(SearchRun)
    \/ CehAfterFh(SearchRun)
    \/ ADone(SearchRun)
    \/ BSwitch(SearchRun)
    \/ BDone(SearchRun)
    \/ BattlePipeline(SearchRun)

SpecSearch == SearchInit /\ [][SearchNext]_vars

\* ------------------------------------------------- the screen classifier
\* Markers a frame may show. A marker is found when its template file exists
\* and find_template matches it in the frame at the threshold 0.75 that every
\* check uses; "entry" stands for any template of series A or B matching.
Markers ==
    {"ok", "back", "next", "defeat", "close_x", "entry", "expansions", "opponent",
     "put_basic", "auto", "battle", "tap_4_5_6", "tap_result", "hourglass"}

Screens ==
    {"screen_8", "defeat_popup", "screen_7", "defeat_screen", "select_expansion",
     "battle_selection", "battle_in_progress", "battle_setup", "screens_4_5_6",
     "result_screen"}

\* Python's None, as returned for an unrecognised screen or a failed capture.
None == "None"

find_template(found, marker) == marker \in found

\* The tests of detect_current_battle_screen, named after its locals.
OkHiddenByNext(found) == find_template(found, "ok") /\ ~find_template(found, "next")

ok_pos(found) == find_template(found, "ok")

has_close_button(found) == find_template(found, "close_x")

ButtonNeverSeen(found) == FALSE

has_expansions_button(found) == find_template(found, "expansions")

expansions_pos(found) == find_template(found, "expansions")

AutoOrBattle(found) ==
    (find_template(found, "auto") \/ find_template(found, "battle"))
        /\ ~expansions_pos(found)

\* `if auto_pos and expansions_pos is None`; battle_pos is computed and unused.
battle_setup_found(found) == find_template(found, "auto") /\ ~expansions_pos(found)

NoSecondaryIndicator(found) == FALSE

hourglass_pos(found) == find_template(found, "hourglass")

\* battle_bot.detect_current_battle_screen (lines 280-462)
detect_current_battle_screen(captured, found) ==
    IF ~captured THEN None
    ELSE IF ok_pos(found) THEN "screen_8"
    ELSE IF find_template(found, "back") THEN "defeat_popup"
    ELSE IF find_template(found, "next") THEN "screen_7"
    ELSE IF find_template(found, "defeat") THEN "defeat_screen"
    ELSE IF has_close_button(found) THEN "select_expansion"
    ELSE IF find_template(found, "entry") /\ ~has_expansions_button(found)
         THEN "select_expansion"
    ELSE IF expansions_pos(found) THEN "battle_selection"
    ELSE IF find_template(found, "opponent") \/ find_template(found, "put_basic")
         THEN "battle_in_progress"
    ELSE IF battle_setup_found(found) THEN "battle_setup"
    ELSE IF find_template(found, "tap_4_5_6") THEN "screens_4_5_6"
    ELSE IF find_template(found, "tap_result") THEN "result_screen"
    ELSE IF hourglass_pos(found) THEN "battle_selection"
    ELSE None

\* StateMachine.detect_current_screen (state_machine.py, lines 43-244)
matcher_find_template(found, marker) == marker \in found

StateMachine_detect_current_screen(captured, found) ==
    IF ~captured THEN None
    ELSE IF matcher_find_template(found, "ok") THEN "screen_8"
    ELSE IF matcher_find_template(found, "back") THEN "defeat_popup"
    ELSE IF matcher_find_template(found, "next") THEN "screen_7"
    ELSE IF matcher_find_template(found, "defeat") THEN "defeat_screen"
    ELSE IF matcher_find_template(found, "close_x") THEN "select_expansion"
    ELSE IF matcher_find_template(found, "entry")
            /\ ~matcher_find_template(found, "expansions")
         THEN "select_expansion"
    ELSE IF matcher_find_template(found, "expansions") THEN "battle_selection"
    ELSE IF matcher_find_template(found, "opponent")
            \/ matcher_find_template(found, "put_basic")
         THEN "battle_in_progress"
    ELSE IF matcher_find_template(found, "auto")
            /\ ~matcher_find_template(found, "expansions")
         THEN "battle_setup"
    ELSE IF matcher_find_template(found, "tap_4_5_6") THEN "screens_4_5_6"
    ELSE IF matcher_find_template(found, "tap_result") THEN "result_screen"
    ELSE IF matcher_find_template(found, "hourglass") THEN "battle_selection"
    ELSE None

\* The folder names of the template tree under <templates>/battle: those the
\* paths of StateMachine name (screen_8, screen_7, select_expansion, ...),
\* those the paths of battle_bot name and reorganize_templates.py writes
\* (popup_new_battle, summary, expansion_selection, ...), or both.
Layouts == {"old", "new", "both"}

\* The markers both classifiers read from the same folder, battle_in_progress.
SharedFolder == {"opponent", "put_basic"}

\* os.path.exists(...) of the path battle_bot builds for a marker's template
\* (the *_DIR constants, lines 62-86) ...
battle_bot_template_exists(layout, marker) ==
    marker \in SharedFolder \/ layout \in {"new", "both"}

\* ... and path.exists() of the path StateMachine builds for it.
StateMachine_template_exists(layout, marker) ==
    marker \in SharedFolder \/ layout \in {"old", "both"}

ClassifyUnchanged ==
    UNCHANGED <<supVars, pst, bs, rst, lp, mg, fx, cc>>

\* A frame: a failed capture, or any combination of matched markers, every
\* template file being where either classifier looks for it.
ClassifyInit ==
    /\ SupInit
    /\ reset_flag = FALSE
    /\ pst = Pst0
    /\ bs = Bs0
    /\ rst = Rst0 /\ lp = Lp0 /\ mg = Mg0 /\ fx = Fx0 /\ cc = Cc0
    /\ \E c \in BOOLEAN, F \in SUBSET Markers :
        /\ (~c => F = {})
        /\ cls = [Cls0 EXCEPT !.captured = c, !.found = F]

CallDetectCurrentBattleScreen ==
    /\ cls.battle_bot = Unset
    /\ cls' = [cls EXCEPT !.battle_bot =
                    detect_current_battle_screen(cls.captured,
                        {m \in cls.found : battle_bot_template_exists(cls.layout, m)})]
    /\ ClassifyUnchanged

CallStateMachineDetect ==
    /\ cls.state_machine = Unset
    /\ cls' = [cls EXCEPT !.state_machine =
                    StateMachine_detect_current_screen(cls.captured,
                        {m \in cls.found : StateMachine_template_exists(cls.layout, m)})]
    /\ ClassifyUnchanged

ClassifyNext == CallDetectCurrentBattleScreen \/ CallStateMachineDetect

SpecClassify == ClassifyInit /\ [][ClassifyNext]_vars

\* The same two calls on a template tree with either set of folder names,
\* for frames over the markers of seven steps of the cascade.
LayoutMarkers == {"ok", "next", "entry", "expansions", "opponent", "auto", "hourglass"}

LayoutInit ==
    /\ SupInit
    /\ reset_flag = FALSE
    /\ pst = Pst0
    /\ bs = Bs0
    /\ rst = Rst0 /\ lp = Lp0 /\ mg = Mg0 /\ fx = Fx0 /\ cc = Cc0
    /\ \E c \in BOOLEAN, F \in SUBSET LayoutMarkers, layout \in Layouts :
        /\ (~c => F = {})
        /\ cls = [Cls0 EXCEPT !.captured = c, !.found = F, !.layout = layout]

SpecLayout == LayoutInit /\ [][ClassifyNext]_vars
\* ------------------------------------------------ persistence, call by call
\* state/models.py and state/persistence.py. A MultiBotExpansionState is a
\* function from the slots it holds to their sets; the JSON object under
\* "bots" is a function from the 1-indexed keys to the sets.
MultiBotExpansionState_from_dict(b) ==
    [s \in {k - 1 : k \in DOMAIN b} \cap 0..3 |-> b[s + 1]]

MultiBotExpansionState_from_legacy_dict(c) == [s \in {0} |-> c]

MultiBotExpansionState_to_dict(m) ==
    MkDoc("multi", [k \in {s + 1 : s \in DOMAIN m} |-> m[k - 1]], {})

\* StatePersistence.load_multi_bot_expansions: the state it returns ...
load_multi_bot_expansions(d) ==
    CASE d.fmt = "multi"  -> MultiBotExpansionState_from_dict(d.bots)
      [] d.fmt = "legacy" -> MultiBotExpansionState_from_legacy_dict(d.completed)
      [] d.fmt = "other"  -> MultiBotExpansionState_from_legacy_dict({})
      [] OTHER            -> EmptyBots

\* A load that leaves the file as it found it.
LoadKeepsFile(d) == d

\* ... and the document it leaves (JSONDecodeError: an empty state is saved).
DocAfterLoadMulti(d) ==
    IF d.fmt = "corrupt" THEN MultiBotExpansionState_to_dict(EmptyBots) ELSE d

\* get_bot_state / set_bot_state
get_bot_state(m, slot) == IF slot \in DOMAIN m THEN m[slot] ELSE {}

set_bot_state(m, slot, state) ==
    [s \in (DOMAIN m) \cup {slot} |-> IF s = slot THEN state ELSE m[s]]

\* StatePersistence.save_expansions(state, slot_id): the document it writes.
save_expansions(d, slot, state) ==
    MultiBotExpansionState_to_dict(set_bot_state(load_multi_bot_expansions(d), slot, state))

\* StatePersistence.load_expansions(slot_id): the set it returns ...
load_expansions(d, slot) ==
    CASE d.fmt = "multi"  ->
            get_bot_state(MultiBotExpansionState_from_dict(d.bots), slot)
      [] d.fmt = "legacy" ->
            get_bot_state(MultiBotExpansionState_from_legacy_dict(d.completed), slot)
      [] d.fmt = "other"  ->
            get_bot_state(MultiBotExpansionState_from_legacy_dict({}), slot)
      [] OTHER            -> {}

\* ... and the document it leaves (JSONDecodeError: save_expansions(empty, 0)).
DocAfterLoadExpansions(d) ==
    IF d.fmt = "corrupt" THEN save_expansions(d, 0, {}) ELSE d

\* Sets and in-memory states the calls are tried on.
PKeys == {FirstKey, KeyAt("B", 1)}

MultiStates == UNION {[S -> SUBSET PKeys] : S \in SUBSET SlotIds}

\* The documents a state m may be found as: written by to_dict, written by
\* the single-slot version of the program, or one of the damaged shapes.
DocsOf(m) ==
    {MultiBotExpansionState_to_dict(m),
     MkDoc("legacy", EmptyBots, get_bot_state(m, 0)),
     MkDoc("other", EmptyBots, {}), MkDoc("corrupt", EmptyBots, {}),
     MkDoc("empty", EmptyBots, {}), AbsentDoc}

\* No supervisor operation, controller thread or search is under way.
NoThreads ==
    /\ bots = {} /\ rm_pending = {} /\ registry = {}
    /\ is_running = [s \in SlotIds |-> FALSE]
    /\ inst_bot = [s \in SlotIds |-> NoRun]
    /\ run_slot = [r \in RunIds |-> 0]
    /\ stop_flag = [r \in RunIds |-> FALSE]
    /\ pc = [r \in RunIds |-> "unborn"]
    /\ orphan = [r \in RunIds |-> FALSE]
    /\ wait_bot = [r \in RunIds |-> NoRun]
    /\ closure_bot = NoRun
    /\ reset_flag = FALSE /\ tick = FALSE
    /\ frame = Frame0 /\ obs = Obs0

PersistInit ==
    /\ NoThreads
    /\ cls = Cls0 /\ bs = Bs0 /\ rst = Rst0 /\ lp = Lp0 /\ mg = Mg0 /\ fx = Fx0 /\ cc = Cc0
    /\ \E m \in MultiStates, s \in SlotIds, S \in SUBSET PKeys :
        /\ pst = [Pst0 EXCEPT !.m = m, !.slot = s, !.arg = S]
        /\ doc \in DocsOf(m)

\* The same calls on a file system that may refuse a write, for the states
\* of the first two slots.
FaultStates == {m \in MultiStates : DOMAIN m \subseteq {0, 1}}

PersistFaultInit ==
    /\ NoThreads
    /\ cls = Cls0 /\ bs = Bs0 /\ rst = Rst0 /\ lp = Lp0 /\ mg = Mg0 /\ fx = Fx0 /\ cc = Cc0
    /\ \E m \in FaultStates, s \in SlotIds, S \in SUBSET PKeys :
        /\ pst = [Pst0 EXCEPT !.m = m, !.slot = s, !.arg = S, !.faults = TRUE]
        /\ doc \in DocsOf(m)

\* Whether open() and json.dump() go through.
WriteOutcomes == IF pst.faults THEN BOOLEAN ELSE {TRUE}

PersistUnchanged ==
    UNCHANGED <<bots, is_running, inst_bot, rm_pending, run_slot, stop_flag, pc, orphan,
                wait_bot, closure_bot, registry, reset_flag, frame, obs, tick, cls, bs,
                rst, lp, mg, fx, cc>>

\* What a write that raised can leave behind: the file as it was (open()
\* failed), or a truncated or partly written file (json.dump failed).
DamagedDocs(d) == {d, MkDoc("empty", EmptyBots, {}), MkDoc("corrupt", EmptyBots, {})}

\* The "except Exception" of save_completed_expansions only logs the error.
save_completed_expansions_raises == FALSE

\* The "except Exception" of save_multi_bot_expansions raises StateError.
save_multi_bot_expansions_raises == TRUE

\* battle_bot.save_completed_expansions(arg) on the thread of slot pst.slot
CallSaveCompletedExpansions ==
    /\ pst.saved_by = Unset /\ pst.loaded_by = Unset /\ pst.failed_by = Unset
    /\ \E write_ok \in WriteOutcomes :
         IF write_ok
         THEN /\ doc' = save_completed_expansions(doc, pst.slot, pst.arg)
              /\ pst' = [pst EXCEPT !.saved_by = "battle_bot", !.before = doc]
         ELSE /\ doc' \in DamagedDocs(doc)
              /\ pst' = [pst EXCEPT !.failed_by = "battle_bot", !.before = doc,
                                    !.raised = save_completed_expansions_raises]
    /\ PersistUnchanged

\* StatePersistence.save_expansions(ExpansionState(arg), slot_id=pst.slot)
CallSaveExpansions ==
    /\ pst.saved_by = Unset /\ pst.loaded_by = Unset /\ pst.failed_by = Unset
    /\ \E write_ok \in WriteOutcomes :
         IF write_ok
         THEN /\ doc' = save_expansions(doc, pst.slot, pst.arg)
              /\ pst' = [pst EXCEPT !.saved_by = "StatePersistence", !.before = doc]
         ELSE /\ doc' \in DamagedDocs(doc) \cup DamagedDocs(DocAfterLoadMulti(doc))
              /\ pst' = [pst EXCEPT !.failed_by = "StatePersistence", !.before = doc,
                                    !.raised = save_multi_bot_expansions_raises]
    /\ PersistUnchanged

\* The calls below record the document they found when no save came first.
BeforeLoad == IF pst.saved_by = Unset /\ pst.failed_by = Unset THEN doc ELSE pst.before

\* battle_bot.load_completed_expansions() on the thread of slot pst.slot
CallLoadCompletedExpansions ==
    /\ pst.loaded_by = Unset
    /\ \E write_ok \in WriteOutcomes :
         IF write_ok \/ doc.fmt # "corrupt"
         THEN /\ doc' = DocAfterLoad(doc, pst.slot)
              /\ pst' = [pst EXCEPT !.loaded_by = "battle_bot",
                                    !.ret = load_completed_expansions(doc, pst.slot),
                                    !.before = BeforeLoad, !.raised = FALSE]
         ELSE /\ doc' \in DamagedDocs(doc)
              /\ pst' = [pst EXCEPT !.loaded_by = "battle_bot", !.ret = {},
                                    !.before = BeforeLoad, !.load_write_failed = TRUE,
                                    !.raised = save_completed_expansions_raises]
    /\ PersistUnchanged

\* StatePersistence.load_expansions(slot_id=pst.slot)
CallLoadExpansions ==
    /\ pst.loaded_by = Unset
    /\ \E write_ok \in WriteOutcomes :
         IF write_ok \/ doc.fmt # "corrupt"
         THEN /\ doc' = DocAfterLoadExpansions(doc)
              /\ pst' = [pst EXCEPT !.loaded_by = "StatePersistence",
                                    !.ret = load_expansions(doc, pst.slot),
                                    !.before = BeforeLoad, !.raised = FALSE]
         ELSE /\ doc' \in DamagedDocs(doc) \cup DamagedDocs(DocAfterLoadMulti(doc))
              /\ pst' = [pst EXCEPT !.loaded_by = "StatePersistence", !.ret = {},
                                    !.before = BeforeLoad, !.load_write_failed = TRUE,
                                    !.raised = save_multi_bot_expansions_raises]
    /\ PersistUnchanged

\* StatePersistence.load_multi_bot_expansions(), then get_bot_state(pst.slot)
CallLoadMultiBotExpansions ==
    /\ pst.loaded_by = Unset
    /\ \E write_ok \in WriteOutcomes :
         IF write_ok \/ doc.fmt # "corrupt"
         THEN /\ doc' = DocAfterLoadMulti(doc)
              /\ pst' = [pst EXCEPT !.loaded_by = "load_multi_bot_expansions",
                                    !.ret = get_bot_state(load_multi_bot_expansions(doc),
                                                          pst.slot),
                                    !.before = BeforeLoad, !.raised = FALSE]
         ELSE /\ doc' \in DamagedDocs(doc)
              /\ pst' = [pst EXCEPT !.loaded_by = "load_multi_bot_expansions", !.ret = {},
                                    !.before = BeforeLoad, !.load_write_failed = TRUE,
                                    !.raised = save_multi_bot_expansions_raises]
    /\ PersistUnchanged

\* MultiBotExpansionState.from_dict(m.to_dict())
CallDictRoundTrip ==
    /\ ~pst.rt_done
    /\ pst' = [pst EXCEPT !.rt_done = TRUE,
                          !.rt = MultiBotExpansionState_from_dict(
                                    MultiBotExpansionState_to_dict(pst.m).bots)]
    /\ UNCHANGED doc
    /\ PersistUnchanged

PersistNext ==
    \/ CallSaveCompletedExpansions
    \/ CallSaveExpansions
    \/ CallLoadCompletedExpansions
    \/ CallLoadExpansions
    \/ CallLoadMultiBotExpansions
    \/ CallDictRoundTrip

SpecPersist == PersistInit /\ [][PersistNext]_vars

SpecPersistFault == PersistFaultInit /\ [][PersistNext]_vars


\* --------------------------------------------- the battle setup screen
\* Polls of wait_for_battle_completion that are followed (the loop itself has
\* no bound when max_wait_time is None).
MaxPolls == 3

\* The template files the two functions test with os.path.exists.
SetupTemplates == {"auto", "battle", "tap_result", "opponent"}

\* screenshot_bgr() returned None.
NoCapture == [ok |-> FALSE, found |-> {}]

\* What a capture can show to handle_battle_setup_screen: None, or the
\* markers that match it.
SetupCaptures == {NoCapture} \cup {[ok |-> TRUE, found |-> F] : F \in SUBSET {"auto", "battle"}}

\* What a capture can show inside wait_for_battle_completion.
WaitCaptures ==
    {NoCapture} \cup
    {[ok |-> TRUE, found |-> F] :
        F \in SUBSET {"tap_result", "auto", "battle", "opponent", "put_basic", "auto_off"}}

\* What the capture of detect_current_battle_screen can show during the wait.
WaitClassified == SUBSET {"auto", "expansions", "opponent", "hourglass"}

\* What detect_current_battle_screen can return during the wait.
WaitDetected ==
    {detect_current_battle_screen(captured, IF captured THEN F ELSE {}) :
        captured \in BOOLEAN, F \in WaitClassified}

Shows(cap, marker) == cap.ok /\ marker \in cap.found

\* "return False" / "return True" of handle_battle_setup_screen.
SetupReturn(b, r) == [b EXCEPT !.at = "ret", !.ret = r]

\* "return ..." of wait_for_battle_completion.
WaitReturn(b, r) == [b EXCEPT !.at = "wret", !.wret = r]

\* The verification capture still shows the marker: return False.
auto_still_off(b) == SetupReturn([b EXCEPT !.verify_off = @ + 1], "False")

\* auto_setup_pos and battle_pos of the "still on setup" branch.
still_on_setup(screen) == Shows(screen, "auto") /\ Shows(screen, "battle")

SetupUnchanged == UNCHANGED <<supVars, cls, pst, rst, lp, mg, fx, cc>>

SetupInit ==
    /\ SupInit
    /\ reset_flag = FALSE
    /\ cls = Cls0
    /\ pst = Pst0
    /\ rst = Rst0 /\ lp = Lp0 /\ mg = Mg0 /\ fx = Fx0 /\ cc = Cc0
    /\ \E T \in SUBSET SetupTemplates : bs = [Bs0 EXCEPT !.at = "start", !.templates = T]

\* screen = screenshot_bgr(); auto_pos; tap(auto_pos).
HbssFirstCapture ==
    /\ bs.at = "start"
    /\ \E screen \in SetupCaptures, tapped \in BOOLEAN :
         bs' = IF ~screen.ok THEN SetupReturn(bs, "False")
               ELSE IF "auto" \in bs.templates /\ Shows(screen, "auto")
               THEN IF ~tapped THEN SetupReturn([bs EXCEPT !.basis = "off", !.tap_failed = TRUE], "False")
                    ELSE [bs EXCEPT !.at = "verify", !.basis = "off", !.on_taps = @ + 1]
               ELSE [bs EXCEPT !.at = "final",
                               !.basis = IF "auto" \in bs.templates THEN "clear" ELSE Unset]
    /\ SetupUnchanged

\* verification_screen = screenshot_bgr(); auto_still_off.
HbssVerify ==
    /\ bs.at = "verify"
    /\ \E screen \in SetupCaptures :
         bs' = IF ~screen.ok THEN SetupReturn(bs, "False")
               ELSE IF Shows(screen, "auto") THEN auto_still_off([bs EXCEPT !.basis = "off"])
               ELSE [bs EXCEPT !.at = "final", !.basis = "clear"]
    /\ SetupUnchanged

\* final_check_screen = screenshot_bgr(); auto_off_check; the second tap.
HbssFinalCheck ==
    /\ bs.at = "final"
    /\ \E screen \in SetupCaptures, tapped \in BOOLEAN :
         bs' = IF "auto" \notin bs.templates THEN [bs EXCEPT !.at = "battle"]
               ELSE IF ~screen.ok THEN SetupReturn(bs, "False")
               ELSE IF Shows(screen, "auto")
               THEN LET b == [bs EXCEPT !.basis = "off",
                                        !.verify_off = IF bs.on_taps > 0 THEN @ + 1 ELSE @]
                    IN  IF ~tapped THEN SetupReturn([b EXCEPT !.tap_failed = TRUE], "False")
                        ELSE [b EXCEPT !.at = "final2", !.on_taps = @ + 1]
               ELSE [bs EXCEPT !.at = "battle", !.basis = "clear"]
    /\ SetupUnchanged

\* final_check_screen2 = screenshot_bgr(); auto_off_check2.
HbssFinalCheck2 ==
    /\ bs.at = "final2"
    /\ \E screen \in SetupCaptures :
         bs' = IF ~screen.ok THEN SetupReturn(bs, "False")
               ELSE IF Shows(screen, "auto")
               THEN SetupReturn([bs EXCEPT !.basis = "off", !.verify_off = @ + 1], "False")
               ELSE [bs EXCEPT !.at = "battle", !.basis = "clear"]
    /\ SetupUnchanged

\* One pass of wait_and_tap_template("battle.png", timeout=10).
HbssTapBattle ==
    /\ bs.at = "battle"
    /\ \E screen \in SetupCaptures, tapped \in BOOLEAN, stop \in BOOLEAN, timed_out \in BOOLEAN :
         bs' = IF "battle" \notin bs.templates \/ timed_out \/ stop
               THEN SetupReturn(bs, "False")
               ELSE IF Shows(screen, "battle") /\ tapped
               THEN SetupReturn([bs EXCEPT !.battle_taps = @ + 1,
                                           !.bad_tap = @ \/ bs.basis = "off"], "True")
               ELSE bs
    /\ SetupUnchanged

\* run_battle_cycle: "if not handle_battle_setup_screen(): return False",
\* then wait_for_battle_completion(max_wait_time=None).
EnterWait ==
    /\ bs.at = "ret"
    /\ bs.ret = "True"
    /\ bs' = IF "tap_result" \in bs.templates THEN [bs EXCEPT !.at = "wait"]
             ELSE WaitReturn(bs, "False")
    /\ SetupUnchanged

\* The auto-off marker during a battle ends the wait.
AbortOnAutoOff(b, tapped) == WaitReturn(b, "False")

\* wait_for_battle_completion, lines 1644-1652 (bot.py 334-341): tap the
\* marker, sleep when the tap was delivered, continue.
reenable_auto(b, tapped) == IF tapped THEN [b EXCEPT !.reenables = @ + 1] ELSE b

\* One iteration of the loop of wait_for_battle_completion, the same in the
\* original (battle_bot.py 1571-1687) and in the patched one (bot.py 278-370).
WaitPoll ==
    /\ bs.at = "wait"
    /\ bs.polls < MaxPolls
    /\ \E screen \in WaitCaptures, detected_screen \in WaitDetected,
          tapped \in BOOLEAN, stop \in BOOLEAN :
         LET on_setup == /\ {"auto", "battle"} \subseteq bs.templates
                         /\ still_on_setup(screen)
             is_in_battle ==
                 \/ detected_screen = "battle_in_progress"
                 \/ IF "opponent" \in bs.templates THEN Shows(screen, "opponent")
                    ELSE Shows(screen, "put_basic")
             b == [bs EXCEPT !.polls = @ + 1,
                             !.seen = [stop |-> stop, ok |-> screen.ok,
                                       result |-> Shows(screen, "tap_result"),
                                       detected |-> detected_screen, on_setup |-> on_setup,
                                       in_battle |-> is_in_battle,
                                       auto_off |-> Shows(screen, "auto_off"),
                                       tapped |-> tapped]]
         IN  bs' = IF stop THEN WaitReturn(b, "False")
                   ELSE IF ~screen.ok THEN b
                   ELSE IF Shows(screen, "tap_result") THEN WaitReturn(b, "True")
                   ELSE IF detected_screen = "battle_setup" /\ on_setup
                   THEN IF tapped
                        THEN [b EXCEPT !.battle_taps = @ + 1,
                                       !.bad_tap = @ \/ Shows(screen, "auto")]
                        ELSE b
                   ELSE IF detected_screen = "battle_selection" THEN WaitReturn(b, "True")
                   ELSE IF is_in_battle /\ Shows(screen, "auto_off")
                   THEN reenable_auto(b, tapped)
                   ELSE [b EXCEPT !.battle_started = @ \/ is_in_battle]
    /\ SetupUnchanged

SetupNext ==
    \/ HbssFirstCapture
    \/ HbssVerify
    \/ HbssFinalCheck
    \/ HbssFinalCheck2
    \/ HbssTapBattle
    \/ EnterWait
    \/ WaitPoll

SpecSetup == SetupInit /\ [][SetupNext]_vars

\* ------------------------------------------------------ the reset marker
\* Markers the operator places and checks each caller makes in a behaviour.
MaxMarkers == 2

ResetChecks == 2

\* _get_slot_id_from_serial() on a thread with no thread-local slot id and a
\* serial that names no port: "return 0".
DefaultSlot(c) == IF c = NoSlot THEN 0 ELSE c

\* battle_bot.check_reset_flag: reset_completed_expansions().
battle_bot_reset(d, c) == reset_completed_expansions(d, DefaultSlot(c))

\* StatePersistence.check_reset_flag: reset_expansions(effective_slot_id),
\* which writes an empty MultiBotExpansionState when the id is None.
StatePersistence_reset(d, c) ==
    IF c = NoSlot THEN MultiBotExpansionState_to_dict(EmptyBots)
    ELSE StatePersistence_reset_expansions(d, c)

ResetUnchanged ==
    UNCHANGED <<bots, is_running, inst_bot, rm_pending, run_slot, stop_flag, pc, orphan,
                wait_bot, closure_bot, registry, frame, obs, tick, cls, pst, bs, lp, mg,
                fx, cc>>

ResetInit ==
    /\ NoThreads
    /\ cls = Cls0 /\ pst = Pst0 /\ bs = Bs0 /\ lp = Lp0 /\ mg = Mg0 /\ fx = Fx0 /\ cc = Cc0
    /\ rst = [Rst0 EXCEPT !.left = [c \in ResetCallers |-> ResetChecks]]
    /\ doc \in {MkDoc("multi", [k \in 1..3 |-> PKeys], {}),
                MkDoc("legacy", EmptyBots, PKeys)}

\* The operator creates reset_expansions.flag.
PlaceMarker ==
    /\ ~reset_flag
    /\ rst.markers < MaxMarkers
    /\ reset_flag' = TRUE
    /\ rst' = [rst EXCEPT !.markers = @ + 1]
    /\ UNCHANGED doc
    /\ ResetUnchanged

\* "if os.path.exists(reset_flag_file)" / "if reset_flag_file.exists()":
\* absent - return False.
CheckExists(c) ==
    /\ rst.at[c] = "idle"
    /\ rst.left[c] > 0
    /\ \E impl \in {"battle_bot", "StatePersistence"} :
         rst' = IF reset_flag
                THEN [rst EXCEPT !.at[c] = "found", !.impl[c] = impl]
                ELSE [rst EXCEPT !.left[c] = @ - 1]
    /\ UNCHANGED <<doc, reset_flag>>
    /\ ResetUnchanged

\* The reset, then os.remove / unlink inside try ... except Exception: a
\* file that is already gone, or that cannot be removed, is only logged.
ResetAndRemove(c) ==
    /\ rst.at[c] = "found"
    /\ doc' = IF rst.impl[c] = "battle_bot" THEN battle_bot_reset(doc, c)
              ELSE StatePersistence_reset(doc, c)
    /\ \E removed \in BOOLEAN : reset_flag' = (reset_flag /\ ~removed)
    /\ rst' = [rst EXCEPT !.at[c] = "idle", !.left[c] = @ - 1, !.resets = @ + 1]
    /\ ResetUnchanged

ResetNext ==
    \/ PlaceMarker
    \/ \E c \in ResetCallers : CheckExists(c)
    \/ \E c \in ResetCallers : ResetAndRemove(c)

SpecReset == ResetInit /\ [][ResetNext]_vars

\* ------------------------------------------- the run loop of one thread
Handlers ==
    {"handle_expansion_selection", "handle_battle_selection_screen",
     "handle_battle_setup_screen", "wait_for_battle_completion", "handle_defeat_screen",
     "handle_result_screen", "handle_defeat_popup", "handle_screens_4_5_6",
     "handle_screen_7", "handle_screen_8"}

\* The battle itself and what follows it, as every branch of run_battle_cycle
\* that reaches the battle spells it out.
AfterSetup == <<"wait_for_battle_completion", "defeat_test">>

DefeatFlow == <<"handle_defeat_screen", "handle_screen_8">>

RewardsFlow ==
    <<"handle_result_screen", "handle_screens_4_5_6", "handle_screen_7", "handle_screen_8">>

\* Every screen is resumed from the battle selection.
FromTheBeginning(screen) ==
    <<"handle_battle_selection_screen", "handle_battle_setup_screen">> \o AfterSetup

\* run_battle_cycle, lines 2195-2487: the steps of the branch taken for the
\* screen; "redetect" is a second detect_current_battle_screen() after a
\* popup, "defeat_test" the one that chooses between the two flows.
Plan(screen) ==
    CASE screen = "select_expansion" ->
            <<"handle_expansion_selection", "handle_battle_setup_screen">> \o AfterSetup
      [] screen = "screen_8" -> <<"handle_screen_8", "redetect_8">>
      [] screen = "defeat_popup" -> <<"handle_defeat_popup", "redetect_popup">>
      [] screen = "defeat_screen" -> DefeatFlow
      [] screen = "screen_7" -> <<"handle_screen_7", "handle_screen_8">>
      [] screen = "screens_4_5_6" ->
            <<"handle_screens_4_5_6", "handle_screen_7", "handle_screen_8">>
      [] screen = "result_screen" -> <<"defeat_test">>
      [] screen = "battle_in_progress" -> AfterSetup
      [] screen = "battle_setup" -> <<"handle_battle_setup_screen">> \o AfterSetup
      [] OTHER ->
            <<"handle_battle_selection_screen", "handle_battle_setup_screen">> \o AfterSetup

\* The branches whose handlers, up to the battle's end, are separated by
\* "if check_stop_flag()".
StopChecked(screen) == screen \in {"select_expansion", "battle_selection"}

\* The screens for which a branch is still ahead after each re-detection.
AheadOf(token) ==
    IF token = "redetect_8" THEN (Screens \cup {None}) \ {"select_expansion", "screen_8"}
    ELSE (Screens \cup {None}) \ {"select_expansion", "screen_8", "defeat_popup"}

\* "return ..." of run_battle_cycle, or an exception leaving it.
RbcDone(l, r) == [l EXCEPT !.at = "rc_exit", !.rbc = r, !.todo = <<>>]

Dispatch(l, screen) ==
    [l EXCEPT !.at = "rbc", !.class = screen, !.handlers = <<>>, !.todo = Plan(screen),
              !.checks = StopChecked(screen)]

\* A cycle that failed ends the loop.
ExitOnFailure(l) ==
    IF l.stop \/ l.result = "False"
    THEN [l EXCEPT !.at = "exited", !.exit = IF l.stop THEN "stop" ELSE "failure"]
    ELSE [l EXCEPT !.at = "delay"]

\* BattleBot.run, lines 507-529: whatever run_cycle returned or raised, only
\* the stop flag leaves the loop.
after_cycle(l) ==
    IF l.stop THEN [l EXCEPT !.at = "exited", !.exit = "stop"]
    ELSE [l EXCEPT !.at = "delay"]

\* An exception of the cycle leaves run_cycle.
Propagates(l) == [l EXCEPT !.result = Unset, !.raised = TRUE]

\* run_cycle, lines 186-188: "except Exception: ... return False", and the
\* flag test after run_battle_cycle().
run_cycle_returns(l) ==
    [l EXCEPT !.result = IF l.rbc = "raise" \/ l.stop THEN "False" ELSE l.rbc]

LoopUnchanged == UNCHANGED <<supVars, cls, pst, bs, rst, mg, fx, cc>>

LoopInit ==
    /\ SupInit
    /\ reset_flag = FALSE
    /\ cls = Cls0 /\ pst = Pst0 /\ bs = Bs0 /\ rst = Rst0 /\ mg = Mg0 /\ fx = Fx0 /\ cc = Cc0
    /\ lp = [Lp0 EXCEPT !.at = "start"]

\* stop_bot from the supervisor's thread: bot._stop_flag = True.
RequestStop ==
    /\ lp.at \notin {Unset, "start", "exited"}
    /\ ~lp.stop
    /\ lp' = [lp EXCEPT !.stop = TRUE]
    /\ LoopUnchanged

\* BattleBot.run up to the loop: the flag is cleared, the template directory
\* is tested and FileNotFoundError raised when it is missing.
RunSetup ==
    /\ lp.at = "start"
    /\ \E template_dir_exists \in BOOLEAN :
         lp' = IF template_dir_exists THEN [lp EXCEPT !.at = "run_top", !.stop = FALSE]
               ELSE [lp EXCEPT !.at = "exited", !.exit = "setup_failed"]
    /\ LoopUnchanged

\* Top of "while True" and the test before the cycle; run_cycle is called.
RunLoopTop ==
    /\ lp.at = "run_top"
    /\ lp' = IF lp.stop THEN [lp EXCEPT !.at = "exited", !.exit = "stop"]
             ELSE [lp EXCEPT !.at = "rc_entry", !.prev = lp.result, !.result = Unset,
                             !.rbc = Unset, !.invoked = FALSE, !.entered_stopped = FALSE,
                             !.aborted = FALSE,
                             !.first = Unset, !.class = Unset, !.handlers = <<>>]
    /\ LoopUnchanged

\* run_cycle, lines 137-138: the flag test on entry.
RunCycleEntry ==
    /\ lp.at = "rc_entry"
    /\ lp' = IF lp.stop
             THEN [lp EXCEPT !.at = "after_cycle", !.result = "False",
                             !.entered_stopped = TRUE, !.aborted = TRUE]
             ELSE [lp EXCEPT !.at = "rc_config"]
    /\ LoopUnchanged

\* run_cycle, lines 140-175: the module is configured, the flag is tested
\* again, run_battle_cycle() is called.
RunCycleConfig ==
    /\ lp.at = "rc_config"
    /\ lp' = IF lp.stop
             THEN [lp EXCEPT !.at = "after_cycle", !.result = "False", !.aborted = TRUE]
             ELSE [lp EXCEPT !.at = "rbc_entry", !.invoked = TRUE]
    /\ LoopUnchanged

\* run_battle_cycle, lines 2174-2193 and 2441-2446: stop tests,
\* check_reset_flag, the classification and the dispatch on it.
RbcClassify ==
    /\ lp.at = "rbc_entry"
    /\ \E screen \in Screens \cup {None}, hourglass_template \in BOOLEAN :
         lp' = IF lp.stop THEN RbcDone(lp, "False")
               ELSE IF screen = None /\ ~hourglass_template
               THEN RbcDone([lp EXCEPT !.first = screen, !.class = screen], "False")
               ELSE Dispatch([lp EXCEPT !.first = screen], screen)
    /\ LoopUnchanged

\* The next step of the branch: a handler, whose value is tested (that of
\* handle_screen_8 is not), or a detection.
RbcStep ==
    /\ lp.at = "rbc"
    /\ lp.todo # <<>>
    /\ LET t == Head(lp.todo) IN
       \E out \in {"True", "False", "raise"}, screen \in Screens \cup {None},
          hourglass_template \in BOOLEAN :
         lp' = IF lp.checks /\ lp.stop THEN RbcDone(lp, "False")
               ELSE IF t \in Handlers
               THEN LET l == [lp EXCEPT !.handlers = Append(@, t)] IN
                    IF out = "raise" THEN RbcDone(l, "raise")
                    ELSE IF out = "False" /\ t # "handle_screen_8" THEN RbcDone(l, "False")
                    ELSE [l EXCEPT !.todo = Tail(@)]
               ELSE IF t = "defeat_test"
               THEN [lp EXCEPT !.checks = FALSE,
                               !.todo = IF screen = "defeat_screen" THEN DefeatFlow
                                        ELSE RewardsFlow]
               ELSE IF screen \notin AheadOf(t) \/ (screen = None /\ ~hourglass_template)
               THEN RbcDone(lp, "False")
               ELSE Dispatch(lp, screen)
    /\ LoopUnchanged

\* "return True" at the end of a branch.
RbcReturnTrue ==
    /\ lp.at = "rbc"
    /\ lp.todo = <<>>
    /\ lp' = RbcDone(lp, "True")
    /\ LoopUnchanged

\* run_cycle, lines 177-188.
RunCycleExit ==
    /\ lp.at = "rc_exit"
    /\ lp' = [run_cycle_returns(lp) EXCEPT !.at = "after_cycle", !.aborted = lp.stop]
    /\ LoopUnchanged

\* BattleBot.run, lines 507-529.
RunAfterCycle ==
    /\ lp.at = "after_cycle"
    /\ lp' = after_cycle(lp)
    /\ LoopUnchanged

\* The interruptible delay and the test that follows it.
RunDelay ==
    /\ lp.at = "delay"
    /\ lp' = IF lp.stop THEN [lp EXCEPT !.at = "exited", !.exit = "stop"]
             ELSE [lp EXCEPT !.at = "run_top"]
    /\ LoopUnchanged

LoopNext ==
    \/ RequestStop
    \/ RunSetup
    \/ RunLoopTop
    \/ RunCycleEntry
    \/ RunCycleConfig
    \/ RbcClassify
    \/ RbcStep
    \/ RbcReturnTrue
    \/ RunCycleExit
    \/ RunAfterCycle
    \/ RunDelay

SpecLoop == LoopInit /\ [][LoopNext]_vars

\* The pipeline of spec and code, by position: selection, setup, battle,
\* result or defeat, rewards (or the defeat popup), summary, optional popup.
HandlerRank(h) ==
    CASE h \in {"handle_battle_selection_screen", "handle_expansion_selection"} -> 1
      [] h = "handle_battle_setup_screen" -> 2
      [] h = "wait_for_battle_completion" -> 3
      [] h \in {"handle_result_screen", "handle_defeat_screen"} -> 4
      [] h \in {"handle_screens_4_5_6", "handle_defeat_popup"} -> 5
      [] h = "handle_screen_7" -> 6
      [] OTHER -> 7

\* The handlers of the step a classified screen belongs to.
HandlersOf(screen) ==
    CASE screen = "select_expansion" -> {"handle_expansion_selection"}
      [] screen = "battle_setup" -> {"handle_battle_setup_screen"}
      [] screen = "battle_in_progress" -> {"wait_for_battle_completion"}
      [] screen = "result_screen" -> {"handle_result_screen", "handle_defeat_screen"}
      [] screen = "defeat_screen" -> {"handle_defeat_screen"}
      [] screen = "defeat_popup" -> {"handle_defeat_popup"}
      [] screen = "screens_4_5_6" -> {"handle_screens_4_5_6"}
      [] screen = "screen_7" -> {"handle_screen_7"}
      [] screen = "screen_8" -> {"handle_screen_8"}
      [] OTHER -> {"handle_battle_selection_screen"}

ScreenRank(screen) == HandlerRank(CHOOSE h \in HandlersOf(screen) : TRUE)

PopupScreens == {"screen_8", "defeat_popup"}

\* ------------------------------------------------- the table of instances
\* Live threads explored per slot.
MaxThreads == 2

\* Slot ids passed to the manager: the first and the last slot and both
\* neighbours of the valid range ...
SlotArgs == {0 - 1, 0, MAX_BOTS - 1, MAX_BOTS}

\* ... of which start_bot and stop_bot get all but the first slot.
StartArgs == SlotArgs \ {0}

SerialArgs == {"", " ", "emulator-5554"}

\* str.strip() on the serial arguments.
Strip(serial) == IF serial = " " THEN "" ELSE serial

\* BotInstance.__init__, lines 27-35.
NewInstance(serial) ==
    [device_serial |-> serial, is_running |-> FALSE, status |-> "Ready",
     error_message |-> None, bot |-> FALSE]

\* threading.Thread(target=self._run_bot) started on a fresh BattleBot.
\* "asked" tells that stop() was called on its bot since the thread was made.
NewThread ==
    [own |-> TRUE, cur |-> TRUE, phase |-> "starting", stop |-> FALSE, asked |-> FALSE]

\* The threads of a slot once the instance has another bot, or the slot
\* another instance.
Superseded(ths, own) ==
    [i \in DOMAIN ths |-> [ths[i] EXCEPT !.cur = FALSE, !.own = ths[i].own /\ own]]

\* BotInstance.stop, lines 126-141, on the instance ...
BotInstance_stop(inst) ==
    IF ~inst.is_running /\ ~inst.bot THEN inst
    ELSE [inst EXCEPT !.status = "Stopping...", !.is_running = FALSE]

\* ... and, through bot.stop(), on the thread running its bot.
StopRequested(ths, inst) ==
    IF inst.bot
    THEN [i \in DOMAIN ths |-> IF ths[i].cur THEN [ths[i] EXCEPT !.stop = TRUE, !.asked = TRUE]
                               ELSE ths[i]]
    ELSE ths

\* BattleBot(...) and Thread.start() inside the try of BotInstance.start;
\* str(e) of what they raise may be empty.
InitOutcomes == {"ok", "bot_raises", "bot_raises_empty", "thread_raises"}

\* A start that is refused launches a thread all the same.
StartRegardless(inst, reachable, templates, init) == "started"

\* BotInstance.start, lines 56-104: which way the call goes.
StartOutcome(inst, reachable, templates, init) ==
    IF inst.is_running THEN "already_running"
    ELSE IF ~reachable THEN "unreachable"
    ELSE IF ~templates THEN "no_templates"
    ELSE IF init # "ok" THEN "init_failed"
    ELSE "started"

\* The probe runs only for a running instance.
ProbesWhileRunning(inst) == inst.is_running

\* BotInstance.get_status_info, line 151: "test_connection(...) if
\* self.device_serial else False".
get_status_info_probes(inst) == inst.device_serial # ""

\* A slot id is taken as it comes.
AnySlot(slot_id, device_serial) == device_serial # "" /\ Strip(device_serial) # ""

\* MultiBotManager.create_bot, lines 183-189.
create_bot_accepts(slot_id, device_serial) ==
    /\ ~(slot_id < 0 \/ slot_id >= MAX_BOTS)
    /\ device_serial # "" /\ Strip(device_serial) # ""

Executing(s) == {i \in DOMAIN mg.threads[s] : mg.threads[s][i].phase = "cycle"}

MgrUnchanged == UNCHANGED <<supVars, cls, pst, bs, rst, lp, fx, cc>>

\* The table when empty and when create_bot filled all slots but the last,
\* nothing started yet.
MgrInit ==
    /\ SupInit
    /\ reset_flag = FALSE
    /\ cls = Cls0 /\ pst = Pst0 /\ bs = Bs0 /\ rst = Rst0 /\ lp = Lp0 /\ fx = Fx0 /\ cc = Cc0
    /\ \E D \in {{}, SlotIds \ {MAX_BOTS - 1}} :
         mg = [Mg0 EXCEPT !.bots = [s \in D |-> NewInstance("emulator-5554")]]

\* What was wrong with the arguments of a call, for the record of it.
ArgsGiven(slot_id, device_serial) ==
    IF slot_id \notin SlotIds
    THEN (IF device_serial \in {"", " "} THEN "bad_both" ELSE "bad_slot")
    ELSE (IF device_serial \in {"", " "} THEN "bad_serial" ELSE "ok")

Called(op, s, ret, why) == [NoCall EXCEPT !.op = op, !.slot = s, !.ret = ret, !.why = why]

MgrCreateBot(slot_id, device_serial) ==
    /\ IF ~create_bot_accepts(slot_id, device_serial)
       THEN mg' = [mg EXCEPT !.last = [Called("create_bot", slot_id, "False", "invalid")
                                         EXCEPT !.args = ArgsGiven(slot_id, device_serial)]]
       ELSE \E constructed \in BOOLEAN :
              LET occupied == slot_id \in DOMAIN mg.bots
                  stopped == IF occupied THEN BotInstance_stop(mg.bots[slot_id])
                             ELSE NewInstance("")
                  ths == IF occupied THEN StopRequested(mg.threads[slot_id], mg.bots[slot_id])
                         ELSE mg.threads[slot_id]
              IN  IF constructed
                  THEN mg' = [mg EXCEPT
                         !.bots = [s \in DOMAIN mg.bots \cup {slot_id} |->
                                     IF s = slot_id THEN NewInstance(Strip(device_serial))
                                     ELSE mg.bots[s]],
                         !.threads[slot_id] = Superseded(ths, FALSE),
                         !.last = [Called("create_bot", slot_id, "True", "created")
                                     EXCEPT !.args = ArgsGiven(slot_id, device_serial)]]
                  ELSE mg' = [mg EXCEPT
                         !.bots = [s \in DOMAIN mg.bots |->
                                     IF s = slot_id THEN stopped ELSE mg.bots[s]],
                         !.threads[slot_id] = ths,
                         !.last = [Called("create_bot", slot_id, "False", "raised")
                                     EXCEPT !.args = ArgsGiven(slot_id, device_serial)]]
    /\ MgrUnchanged

MgrStartBot(slot_id) ==
    /\ slot_id \in SlotIds => Len(mg.threads[slot_id]) < MaxThreads
    /\ IF slot_id \notin DOMAIN mg.bots
       THEN mg' = [mg EXCEPT !.last = Called("start_bot", slot_id, "False", "no_bot")]
       ELSE \E reachable \in BOOLEAN, templates \in BOOLEAN, init \in InitOutcomes :
              LET inst == mg.bots[slot_id]
                  why == StartOutcome(inst, reachable, templates, init)
                  said == Called("start_bot", slot_id,
                                 IF why = "started" THEN "True" ELSE "False", why)
              IN  CASE why = "already_running" -> mg' = [mg EXCEPT !.last = said]
                    [] why = "unreachable" ->
                         mg' = [mg EXCEPT
                                  !.bots[slot_id].status = "Connection Failed",
                                  !.bots[slot_id].error_message = "text",
                                  !.last = said]
                    [] why = "no_templates" ->
                         mg' = [mg EXCEPT
                                  !.bots[slot_id].status = "Template Error",
                                  !.bots[slot_id].error_message = "text",
                                  !.last = said]
                    [] why = "init_failed" ->
                         mg' = [mg EXCEPT
                                  !.bots[slot_id].status = "Initialization Failed",
                                  !.bots[slot_id].is_running = FALSE,
                                  !.bots[slot_id].error_message =
                                      IF init = "bot_raises_empty" THEN "" ELSE "text",
                                  !.bots[slot_id].bot = inst.bot \/ init = "thread_raises",
                                  !.threads[slot_id] =
                                      IF init = "thread_raises"
                                      THEN Superseded(mg.threads[slot_id], TRUE)
                                      ELSE mg.threads[slot_id],
                                  !.last = said]
                    [] OTHER ->
                         mg' = [mg EXCEPT
                                  !.bots[slot_id].status = "Starting...",
                                  !.bots[slot_id].is_running = TRUE,
                                  !.bots[slot_id].error_message = None,
                                  !.bots[slot_id].bot = TRUE,
                                  !.threads[slot_id] =
                                      Append(Superseded(mg.threads[slot_id], TRUE), NewThread),
                                  !.last = [said EXCEPT !.launched = 1]]
    /\ MgrUnchanged

MgrStopBot(slot_id) ==
    /\ IF slot_id \notin DOMAIN mg.bots
       THEN mg' = [mg EXCEPT !.last = Called("stop_bot", slot_id, None, "no_bot")]
       ELSE mg' = [mg EXCEPT
                     !.bots[slot_id] = BotInstance_stop(@),
                     !.threads[slot_id] = StopRequested(@, mg.bots[slot_id]),
                     !.last = Called("stop_bot", slot_id, None, "stopped")]
    /\ MgrUnchanged

\* remove_bot, lines 243-287: stop, a join that gives up after 3 s, and the
\* entry is deleted whether or not the thread ended.
MgrRemoveBot(slot_id) ==
    /\ IF slot_id \notin DOMAIN mg.bots
       THEN mg' = [mg EXCEPT !.last = Called("remove_bot", slot_id, None, "no_bot")]
       ELSE \E joined \in BOOLEAN :
              LET ths == StopRequested(mg.threads[slot_id], mg.bots[slot_id])
                  left == IF joined
                          THEN SelectSeq(ths, LAMBDA t : ~(t.cur /\ t.phase = "cycle"))
                          ELSE ths
              IN  mg' = [mg EXCEPT
                           !.bots = [s \in DOMAIN mg.bots \ {slot_id} |-> mg.bots[s]],
                           !.threads[slot_id] = Superseded(left, FALSE),
                           !.last = Called("remove_bot", slot_id, None, "removed")]
    /\ MgrUnchanged

\* get_bot_status, lines 301-314.
MgrGetBotStatus(slot_id) ==
    /\ IF slot_id \notin DOMAIN mg.bots
       THEN mg' = [mg EXCEPT !.last = Called("get_bot_status", slot_id, None, "no_bot")]
       ELSE LET inst == mg.bots[slot_id] IN
            mg' = [mg EXCEPT
                     !.last = [Called("get_bot_status", slot_id, "dict", "status") EXCEPT
                                 !.probed = get_status_info_probes(inst),
                                 !.probed_stopped =
                                     get_status_info_probes(inst) /\ ~inst.is_running]]
    /\ MgrUnchanged

\* get_all_statuses, lines 316-321.
MgrGetAllStatuses ==
    /\ mg' = [mg EXCEPT
                !.last = [Called("get_all_statuses", 0, "dict", "status") EXCEPT
                            !.probed = \E s \in DOMAIN mg.bots :
                                          get_status_info_probes(mg.bots[s]),
                            !.probed_stopped =
                                \E s \in DOMAIN mg.bots :
                                   /\ get_status_info_probes(mg.bots[s])
                                   /\ ~mg.bots[s].is_running]]
    /\ MgrUnchanged

\* The end of _run_bot, lines 119-124, as far as the instance still is the
\* thread's own.
ThreadFinished(s, i, why) ==
    [mg EXCEPT
       !.bots = [k \in DOMAIN mg.bots |->
                   IF k = s /\ mg.threads[s][i].own
                   THEN [mg.bots[k] EXCEPT !.is_running = FALSE,
                                           !.status = IF @ = "Error" THEN @ ELSE "Stopped"]
                   ELSE mg.bots[k]],
       !.threads[s] = SelectSeq([j \in DOMAIN mg.threads[s] |->
                                   IF j = i THEN [mg.threads[s][j] EXCEPT !.phase = "done"]
                                   ELSE mg.threads[s][j]],
                                LAMBDA t : t.phase # "done"),
       !.last = [Called("thread", s, None, why) EXCEPT
                   !.args = IF mg.threads[s][i].own THEN "own" ELSE "orphan"]]

\* _run_bot, lines 107-111, and BattleBot.run up to its loop: the status is
\* set, the bot's flag cleared, the template directory tested.
MgrThreadRun(s, i) ==
    /\ i \in DOMAIN mg.threads[s]
    /\ mg.threads[s][i].phase = "starting"
    /\ \E template_dir_exists \in BOOLEAN :
         IF template_dir_exists
         THEN mg' = [mg EXCEPT
                       !.bots = [k \in DOMAIN mg.bots |->
                                   IF k = s /\ mg.threads[s][i].own
                                   THEN [mg.bots[k] EXCEPT !.status = "Running"]
                                   ELSE mg.bots[k]],
                       !.threads[s][i].phase = "cycle",
                       !.threads[s][i].stop = FALSE,
                       !.last = Called("thread", s, None, "running")]
         ELSE mg' = ThreadFinished(s, i, "setup_failed")
    /\ MgrUnchanged

\* BattleBot.run leaves its loop on a test of the flag, _run_bot ends.
MgrThreadExit(s, i) ==
    /\ i \in DOMAIN mg.threads[s]
    /\ mg.threads[s][i].phase = "cycle"
    /\ mg.threads[s][i].stop
    /\ mg' = ThreadFinished(s, i, "stopped")
    /\ MgrUnchanged

\* BattleBot.run, lines 542-550: an exception that escapes the loop is raised
\* again by the inner handler and logged by the outer one, which does not
\* raise; _run_bot ends as after a stop.
MgrThreadError(s, i) ==
    /\ i \in DOMAIN mg.threads[s]
    /\ mg.threads[s][i].phase = "cycle"
    /\ mg' = ThreadFinished(s, i, "loop_error")
    /\ MgrUnchanged

MgrNext ==
    \/ \E slot_id \in SlotArgs, device_serial \in SerialArgs :
         MgrCreateBot(slot_id, device_serial)
    \/ \E slot_id \in StartArgs : MgrStartBot(slot_id)
    \/ \E slot_id \in StartArgs : MgrStopBot(slot_id)
    \/ \E slot_id \in SlotArgs : MgrRemoveBot(slot_id)
    \/ \E slot_id \in SlotArgs : MgrGetBotStatus(slot_id)
    \/ MgrGetAllStatuses
    \/ \E s \in SlotIds, i \in 1..MaxThreads : MgrThreadRun(s, i)
    \/ \E s \in SlotIds, i \in 1..MaxThreads : MgrThreadExit(s, i)
    \/ \E s \in SlotIds, i \in 1..MaxThreads : MgrThreadError(s, i)

SpecManager == MgrInit /\ [][MgrNext]_vars

\* ------------------------------------ locating an entry and the hourglass
\* find_expansion_in_screen(..., max_scrolls=8) and its max_reset_attempts.
FEIS_MAX_SCROLLS == 8
MAX_RESET_ATTEMPTS == 2

\* Failed captures explored in one call of find_hourglass.
MaxCaptures == 6

Shots == {"failed", "match", "nomatch"}

\* The loop conditions replaced by TRUE.
ScrollsOn(count, max_scrolls) == TRUE

\* "while scroll_count < max_scrolls" / "for ... in range(max_scrolls)".
may_scroll(count, max_scrolls) == count < max_scrolls

\* "while scroll_count <= max_scrolls" of find_hourglass.
fh_loop(count, max_scrolls) == count <= max_scrolls

\* A position whatever the capture showed.
AnyCapture(shot) == "pos"

\* "pos = find_template(screen, ...); if pos: return pos".
position_from(shot) == IF shot = "match" THEN "pos" ELSE "None"

\* check_stop_flag() returned False; tap()/scroll_down() is called.
StopTested(f) == [f EXCEPT !.checked = TRUE]

Sent(f) == [f EXCEPT !.unchecked_input = @ \/ ~f.checked, !.checked = FALSE]

Scrolled(f) == [Sent(f) EXCEPT !.scrolls = @ + 1]

Captured(f, shot) == [f EXCEPT !.shot = shot, !.captures = @ + 1]

Returns(f, value) == [f EXCEPT !.at = "returned", !.ret = value]

LocateUnchanged == UNCHANGED <<supVars, cls, pst, bs, rst, lp, mg, cc>>

LocateInit ==
    /\ SupInit
    /\ reset_flag = FALSE
    /\ cls = Cls0 /\ pst = Pst0 /\ bs = Bs0 /\ rst = Rst0 /\ lp = Lp0 /\ mg = Mg0
    /\ cc = Cc0
    /\ \E fn \in {"find_expansion_in_screen", "find_hourglass"} :
         fx = [Fx0 EXCEPT !.fn = fn, !.at = "start"]

\* The stop flag is set from another thread.
LocateStop ==
    /\ fx.at \notin {Unset, "returned"}
    /\ ~fx.stop
    /\ fx' = [fx EXCEPT !.stop = TRUE]
    /\ LocateUnchanged

\* find_expansion_in_screen, lines 842-863: the template test and the first
\* capture, without a scroll.
FeisStart ==
    /\ fx.fn = "find_expansion_in_screen"
    /\ fx.at = "start"
    /\ \E template \in BOOLEAN, shot \in Shots :
         fx' = IF ~template THEN Returns(fx, "None")
               ELSE LET f == Captured(fx, shot) IN
                    IF shot = "nomatch" THEN [f EXCEPT !.at = "scan"]
                    ELSE Returns(f, position_from(shot))
    /\ LocateUnchanged

\* One iteration of the first scroll loop, lines 867-892.
FeisScan ==
    /\ fx.fn = "find_expansion_in_screen"
    /\ fx.at = "scan"
    /\ \E scrolled \in BOOLEAN, shot \in Shots :
         fx' = IF ~may_scroll(fx.scroll_count, FEIS_MAX_SCROLLS)
               THEN [fx EXCEPT !.at = "reset", !.reset_attempt = 0]
               ELSE IF fx.stop THEN Returns(fx, "None")
               ELSE LET s == Scrolled(StopTested(fx)) IN
                    IF ~scrolled THEN [s EXCEPT !.at = "reset", !.reset_attempt = 0]
                    ELSE LET f == Captured(s, shot) IN
                         IF shot = "match" THEN Returns(f, position_from(shot))
                         ELSE [f EXCEPT !.scroll_count = @ + 1]
    /\ LocateUnchanged

\* One iteration of "for reset_attempt in range(max_reset_attempts)" up to
\* its scroll loop, lines 896-955: close_x is tapped, then expansions, then
\* the top of the catalog is captured. Every failure on the way is a break,
\* a failed capture at the top a continue.
FeisReset ==
    /\ fx.fn = "find_expansion_in_screen"
    /\ fx.at = "reset"
    /\ \E way \in {"no_close", "close_tap_failed", "no_expansions", "reopen_tap_failed",
                   "reopened"}, shot \in Shots :
         fx' = IF ~(fx.reset_attempt < MAX_RESET_ATTEMPTS) THEN Returns(fx, "None")
               ELSE LET r == [fx EXCEPT !.resets = @ + 1, !.scrolls = 0] IN
                    CASE way = "no_close" -> Returns(fx, "None")
                      [] way = "close_tap_failed" -> Returns(Sent(r), "None")
                      [] way = "no_expansions" -> Returns(Sent(r), "None")
                      [] way = "reopen_tap_failed" -> Returns(Sent(Sent(r)), "None")
                      [] OTHER ->
                           LET f == Captured(Sent(Sent(r)), shot) IN
                           CASE shot = "failed" -> [f EXCEPT !.reset_attempt = @ + 1]
                             [] shot = "match" -> Returns(f, position_from(shot))
                             [] OTHER -> [f EXCEPT !.at = "rescan", !.scroll_count = 0]
    /\ LocateUnchanged

\* One iteration of "for scroll_retry in range(max_scrolls)", lines 959-975;
\* scroll_count stands for scroll_retry.
FeisRescan ==
    /\ fx.fn = "find_expansion_in_screen"
    /\ fx.at = "rescan"
    /\ \E scrolled \in BOOLEAN, shot \in Shots :
         fx' = IF ~may_scroll(fx.scroll_count, FEIS_MAX_SCROLLS)
               THEN [fx EXCEPT !.at = "reset", !.reset_attempt = @ + 1]
               ELSE LET s == Scrolled(fx) IN
                    IF ~scrolled THEN [s EXCEPT !.at = "reset", !.reset_attempt = @ + 1]
                    ELSE LET f == Captured(s, shot) IN
                         IF shot = "match" THEN Returns(f, position_from(shot))
                         ELSE [f EXCEPT !.scroll_count = @ + 1]
    /\ LocateUnchanged

\* find_hourglass, lines 475-481: the template test.
FhStart ==
    /\ fx.fn = "find_hourglass"
    /\ fx.at = "start"
    /\ \E template \in BOOLEAN :
         fx' = IF template THEN [fx EXCEPT !.at = "fh_loop"] ELSE Returns(fx, "None")
    /\ LocateUnchanged

\* One iteration of find_hourglass's loop, lines 484-513: a failed capture
\* is a "continue" that leaves scroll_count as it was.
FhIteration ==
    /\ fx.fn = "find_hourglass"
    /\ fx.at = "fh_loop"
    /\ \E shot \in Shots :
         /\ shot = "failed" => fx.captures < MaxCaptures
         /\ fx' = IF ~fh_loop(fx.scroll_count, FH_MAX_SCROLLS) \/ fx.stop
                  THEN Returns(fx, "None")
                  ELSE LET f == Captured(StopTested(fx), shot) IN
                       CASE shot = "failed" -> f
                         [] shot = "match" -> Returns(f, position_from(shot))
                         [] OTHER ->
                              IF fx.scroll_count < FH_MAX_SCROLLS
                              THEN [Scrolled(StopTested(f)) EXCEPT !.scroll_count = @ + 1]
                              ELSE Returns(f, "None")
    /\ LocateUnchanged

LocateNext ==
    \/ LocateStop
    \/ FeisStart
    \/ FeisScan
    \/ FeisReset
    \/ FeisRescan
    \/ FhStart
    \/ FhIteration

SpecLocate == LocateInit /\ [][LocateNext]_vars

\* ---------------------------------------------------------------------------
\* Two controller threads side by side (SpecPair): the thread-local device
\* address and slot id of battle_bot.py, and save_completed_expansions as the
\* separate file operations it is made of.
\* ---------------------------------------------------------------------------

\* save_completed_expansions calls and thread restarts, over both slots.
MaxSaves == 2
MaxRestarts == 1

\* The slots of the two threads.
PairSlots == {0, 1}

\* The device addresses given to the two slots, by their port: the ports of
\* slots 1 and 0, the port of slot 0 and one outside 5585..5588, one outside
\* and the port of slot 1.
PairDevices == {<<5586, 5585>>, <<5585, 5590>>, <<5590, 5586>>}

\* The global ADB_SERIAL of battle_bot.py, line 12: "127.0.0.1:5585".
DefaultSerial == 5585

\* A thread that has not set its thread-local values.
NewThreadLocal ==
    [at |-> "new", has_serial |-> FALSE, adb_serial |-> 0, has_slot |-> FALSE, slot_id |-> 0,
     read |-> AbsentDoc, arg |-> {}, key |-> NoSlot, cmd_to |-> 0]

\* A get_adb_serial that reads the module's global alone.
GlobalSerial(c, t) == c.ADB_SERIAL

\* get_adb_serial, lines 15-19
get_adb_serial(c, t) ==
    IF c.th[t].has_serial THEN c.th[t].adb_serial ELSE c.ADB_SERIAL

\* set_adb_serial, lines 21-26: the thread-local value and the global.
set_adb_serial(c, t, serial) ==
    [c EXCEPT !.th[t].has_serial = TRUE, !.th[t].adb_serial = serial, !.ADB_SERIAL = serial]

\* set_slot_id, lines 34-36
set_slot_id(c, t, slot_id) ==
    [c EXCEPT !.th[t].has_slot = TRUE, !.th[t].slot_id = slot_id]

\* A slot id computed from the device address alone.
SlotFromPort(c, t) ==
    IF (get_adb_serial(c, t) - 5585) \in 0..3 THEN get_adb_serial(c, t) - 5585 ELSE 0

\* _get_slot_id_from_serial, lines 659-676
get_slot_id_from_serial(c, t) ==
    IF c.th[t].has_slot /\ c.th[t].slot_id \in 0..3
    THEN c.th[t].slot_id
    ELSE SlotFromPort(c, t)

\* What a reader of the file gets while a writer has it open.
TruncatedDoc == MkDoc("empty", EmptyBots, {})
PartialDoc == MkDoc("corrupt", EmptyBots, {})

\* The sets a save is called with.
SaveArgs == {{FirstKey}, PKeys}

\* The documents the two slots start from: an entry for each.
PairDocs ==
    {MkDoc("multi", [k \in {1, 2} |-> IF k = 1 THEN a ELSE b], {}) :
        a \in {{FirstKey}}, b \in {{KeyAt("B", 1)}}}

\* Another thread has opened the file for writing and not closed it.
OtherWriting(c, t) == \E u \in PairSlots \ {t} : c.th[u].at = "opened"

Wrote(c, key, value) ==
    IF key \in PairSlots THEN [c EXCEPT !.held[key] = @ \cup {value}] ELSE c

PairUnchanged ==
    UNCHANGED <<bots, is_running, inst_bot, rm_pending, run_slot, stop_flag, pc, orphan,
                wait_bot, closure_bot, registry, reset_flag, frame, obs, tick,
                cls, pst, bs, rst, lp, mg, fx>>

PairInit ==
    /\ NoThreads
    /\ cls = Cls0 /\ pst = Pst0 /\ bs = Bs0 /\ rst = Rst0 /\ lp = Lp0 /\ mg = Mg0
    /\ fx = Fx0
    /\ doc \in PairDocs
    /\ \E devices \in PairDevices :
         LET device_serial == [t \in PairSlots |-> devices[t + 1]] IN
         /\ cc = [at |-> "pair", saves |-> 0, restarts |-> 0, ADB_SERIAL |-> DefaultSerial, device_serial |-> device_serial,
                  th |-> [t \in PairSlots |-> NewThreadLocal],
                  held |-> [t \in PairSlots |-> {doc.bots[JsonSlot(t)]}]]

\* BattleBot.run, lines 453-470, on the controller thread of slot t.
PairRun(t) ==
    /\ cc.th[t].at \in {"new", "again"}
    /\ cc' = [set_slot_id(set_adb_serial(cc, t, cc.device_serial[t]), t, t)
                EXCEPT !.th[t].at = "idle"]
    /\ UNCHANGED doc
    /\ PairUnchanged

\* adb_cmd, lines 111-113: tap, swipe and screenshot_bgr all go through it.
PairCommand(t) ==
    /\ cc.th[t].at = "idle"
    /\ cc' = [cc EXCEPT !.th[t].cmd_to = get_adb_serial(cc, t)]
    /\ UNCHANGED doc
    /\ PairUnchanged

\* load_completed_expansions, lines 678-717
PairLoad(t) ==
    /\ cc.th[t].at = "idle"
    /\ LET key == get_slot_id_from_serial(cc, t)
           c1  == [cc EXCEPT !.th[t].key = key]
       IN  /\ doc' = DocAfterLoad(doc, key)
           /\ cc' = IF doc.fmt = "corrupt" THEN Wrote(c1, key, {}) ELSE c1
    /\ PairUnchanged

\* save_completed_expansions, lines 721-732: the slot and the file as read.
PairSaveRead(t) ==
    /\ cc.th[t].at = "idle"
    /\ cc.saves < MaxSaves
    /\ \E completed_set \in SaveArgs :
         cc' = [cc EXCEPT !.saves = @ + 1, !.th[t].at = "merged", !.th[t].read = doc,
                          !.th[t].arg = completed_set,
                          !.th[t].key = get_slot_id_from_serial(cc, t)]
    /\ UNCHANGED doc
    /\ PairUnchanged

\* line 758: open(..., 'w') empties the file.
PairSaveOpen(t) ==
    /\ cc.th[t].at = "merged"
    /\ doc' = TruncatedDoc
    /\ cc' = [cc EXCEPT !.th[t].at = "opened"]
    /\ PairUnchanged

\* line 759: json.dump has written a part of the text.
PairSavePartial(t) ==
    /\ cc.th[t].at = "opened"
    /\ doc # PartialDoc
    /\ doc' = PartialDoc
    /\ UNCHANGED cc
    /\ PairUnchanged

\* lines 759-761: the text is written and the file closed. With another
\* writer's handle open on the file the text may be a mix of the two.
PairSaveClose(t) ==
    /\ cc.th[t].at = "opened"
    /\ LET th == cc.th[t]
           own == save_completed_expansions(th.read, th.key, th.arg)
       IN  /\ doc' \in (IF OtherWriting(cc, t) THEN {own, PartialDoc} ELSE {own})
           /\ cc' = Wrote([cc EXCEPT !.th[t].at = "idle", !.th[t].read = AbsentDoc, !.th[t].arg = {}],
                          th.key, th.arg)
    /\ PairUnchanged

\* The loop of BattleBot.run ends (a stop request) and the thread with it.
PairExit(t) ==
    /\ cc.th[t].at = "idle"
    /\ cc' = [cc EXCEPT !.th[t].at = "ended"]
    /\ UNCHANGED doc
    /\ PairUnchanged

\* BotInstance.start, lines 84-94: a new thread for the slot, its
\* thread-local storage empty.
PairStartAgain(t) ==
    /\ cc.th[t].at = "ended"
    /\ cc.restarts < MaxRestarts
    /\ cc' = [cc EXCEPT !.restarts = @ + 1,
                        !.th[t] = [NewThreadLocal EXCEPT !.at = "again",
                                                         !.cmd_to = cc.th[t].cmd_to,
                                                         !.key = cc.th[t].key]]
    /\ UNCHANGED doc
    /\ PairUnchanged

PairNext ==
    \E t \in PairSlots :
        \/ PairRun(t)
        \/ PairCommand(t)
        \/ PairLoad(t)
        \/ PairSaveRead(t)
        \/ PairSaveOpen(t)
        \/ PairSavePartial(t)
        \/ PairSaveClose(t)
        \/ PairExit(t)
        \/ PairStartAgain(t)

SpecPair == PairInit /\ [][PairNext]_vars
\* ------------------------------------------------------------- claims
\* C1 - per-slot stop isolation: a poll/wait loop running in a slot's thread
\* returns its 'stopped' outcome only when that slot's own stop flag is set;
\* setting the flag of another slot never makes it return 'stopped'.
C1_StopIsolation == \A r \in RunIds : pc[r] = "stopped" => stop_flag[r]

\* C2 - stop liveness: once the stop flag of a bot whose thread is inside
\* run() has been set, that thread eventually finishes, whatever wait it is
\* in and whatever other bots were constructed before or after it.
C2_StopLiveness ==
    \A r \in RunIds : (stop_flag[r] /\ r \in registry) ~> (pc[r] = "done")

\* C3 - the stop flag is never cleared during a run: once set, it stays set
\* until the controller thread has exited, also when stop() came right after
\* start(), before the thread began run().
C3_StopFlagNeverCleared ==
    [][\A r \in RunIds : (stop_flag[r] /\ pc[r] # "done") => stop_flag'[r]]_vars

\* C4 - no tap after stop is observed: once a check of the stop flag in a
\* cycle has returned True, the controller sends no tap or swipe to the
\* device in that cycle.
C4_NoTapAfterStop == ~obs.input_after_stop

\* C5 - the full fleet never deadlocks and the document holds only slots run:
\* a pending remove can always complete, every live controller thread can
\* always take its next step, and every slot entry of the persisted document
\* belongs to a slot for which a controller was run.
C5_FleetNoDeadlock ==
    /\ \A s \in rm_pending : ENABLED remove_bot_finish(s)
    /\ \A r \in RunIds : pc[r] \in {"start", "loop"} => ENABLED FleetThreadStep(r)
    /\ DocSlots(doc) \subseteq {run_slot[r] : r \in RunIds \ Unborn}

\* C5 witness: all MAX_BOTS slots were started, stopped and removed, their
\* threads have finished and each has left its entry in the document.
C5_Witness ==
    /\ bots = {}
    /\ \A r \in RunIds : pc[r] = "done" /\ stop_flag[r]
    /\ DocSlots(doc) = SlotIds

\* C6 - skip-completed invariant: the entry the catalog search is selecting
\* or has entered, of series A or B, is never one whose key is in the slot's
\* persisted completion set.
C6_SkipCompleted ==
    /\ obs.attempting # NoKey => obs.attempting \notin PersistedSet(doc, SearchSlot)
    /\ obs.entered # NoKey => obs.entered \notin PersistedSet(doc, SearchSlot)

\* C6 witness: the search skipped the first entry of series B, which was in
\* the set when it began (as was all of series A), and is attempting the
\* second.
C6_Witness ==
    /\ frame.series = "B" /\ frame.idx = 2
    /\ obs.attempting = KeyAt("B", 2)
    /\ KeysA \cup {KeyAt("B", 1)} \subseteq obs.start_set
    /\ KeyAt("B", 1) \in PersistedSet(doc, SearchSlot)

\* C7 - a key enters the persisted completion set only in a step taken in
\* an attempt in which select_expansion tapped that entry and the screen was
\* seen to leave the catalog; an entry is given up only at the end of its
\* third attempt, and is then in neither the set nor the document.
C7_MarkOnlyAfterEntering ==
    [][/\ \A k \in Keys :
            (k \in PersistedSet(doc', SearchSlot) /\ k \notin PersistedSet(doc, SearchSlot))
                => (obs.entered = k /\ obs.attempting = k)
       /\ (obs'.gave_up # NoKey /\ obs'.gave_up # obs.gave_up)
            => /\ frame.attempt = MAX_ATTEMPTS_PER_EXPANSION - 1
               /\ obs'.gave_up \notin PersistedSet(doc', SearchSlot)
               /\ obs'.gave_up \notin frame'.completed]_vars

\* C7 witness: in one invocation an entry was given up after its attempts and
\* another entry was entered and marked; the one given up is not in the
\* document.
C7_Witness ==
    /\ obs.gave_up # NoKey
    /\ obs.gave_up \notin PersistedSet(doc, SearchSlot)
    /\ PersistedSet(doc, SearchSlot) \ obs.start_set # {}

\* C8 - series ordering: the search is at the switch to series B, in the
\* loop over series B or attempting one of its entries only while every key
\* of series A is in the slot's persisted set; an invocation that leaves an
\* entry of series A unmarked returns without touching series B.
C8_SeriesOrdering ==
    /\ ((obs.touched_b \/ pc[SearchRun] = "b_switch" \/ frame.series = "B")
            /\ ~obs.did_reset) => KeysA \subseteq PersistedSet(doc, SearchSlot)
    /\ obs.attempting \in KeysB => KeysA \subseteq PersistedSet(doc, SearchSlot)
    /\ (pc[SearchRun] = "loop" /\ obs.invoked /\ obs.ran_a
            /\ ~(KeysA \subseteq PersistedSet(doc, SearchSlot)) /\ ~obs.did_reset)
        => (~obs.touched_b /\ obs.result \in {"none", "battle"})

\* C8 witness: one invocation ran the pass over series A, marked its last
\* entries, switched and is attempting an entry of series B.
C8_Witness ==
    /\ obs.ran_a /\ obs.touched_b /\ obs.reached_b
    /\ obs.attempting \in KeysB

\* C9 as stated - with every key of series A and B in the slot's set, the
\* next invocation of the search (not stopped) clears the slot's persisted set
\* and returns 'no battle found'.
C9_ResetWheneverExhausted ==
    (pc[SearchRun] = "loop" /\ obs.invoked /\ ~obs.stop_seen /\ obs.start_set = Keys)
        => (PersistedSet(doc, SearchSlot) = {} /\ obs.result = "none")

\* C9 amended - with every key of series A and B in the slot's set, an
\* invocation whose switch_to_series("B") succeeds clears the slot's persisted
\* set and returns 'no battle found'; one that is stopped, cannot reach the
\* catalog or fails the switch returns 'no battle found' and leaves the set
\* as it was. The invocation after a reset finds the set empty and goes
\* through series A before anything else.
C9_ExhaustionAndReset ==
    /\ (pc[SearchRun] = "loop" /\ obs.invoked /\ obs.start_set = Keys /\ obs.reached_b)
        => (PersistedSet(doc, SearchSlot) = {} /\ obs.result = "none" /\ obs.did_reset)
    /\ (pc[SearchRun] = "loop" /\ obs.invoked /\ obs.start_set = Keys /\ ~obs.reached_b)
        => (PersistedSet(doc, SearchSlot) = Keys /\ obs.result = "none" /\ ~obs.did_reset)
    /\ (obs.prev_reset /\ obs.invoked)
        => /\ obs.start_set = {}
           /\ obs.touched_b => obs.ran_a
           /\ pc[SearchRun] \in {"b_switch", "b_done"} => obs.ran_a
           /\ obs.attempting # NoKey /\ ~obs.ran_a => FALSE

\* C9 witness: an invocation found the whole catalog in the set and reset it;
\* the following one began from the empty set and is attempting an entry of
\* series A.
C9_Witness ==
    /\ obs.prev_full /\ obs.prev_reset
    /\ obs.invoked /\ obs.start_set = {} /\ obs.ran_a
    /\ obs.attempting \in KeysA

\* C10 - end-to-end search path: when handle_battle_selection_screen, having
\* found no hourglass, calls the search and the set holds all of series A and
\* one of the two entries of series B, the search never enters the loop over
\* series A, and whatever entry it attempts is the remaining entry of series
\* B, after a successful switch to series B.
C10_EndToEndSearchPath ==
    (obs.from_hbs /\ obs.invoked /\ \E b \in KeysB : obs.start_set = KeysA \cup {b})
        => /\ ~obs.ran_a
           /\ obs.attempting # NoKey
                => (obs.attempting \in KeysB \ obs.start_set /\ obs.reached_b)
           /\ obs.entered # NoKey => obs.entered \in KeysB \ obs.start_set

\* C10 witness: such an invocation has switched to series B and entered the
\* one remaining entry.
C10_Witness ==
    /\ obs.from_hbs /\ obs.invoked /\ ~obs.ran_a /\ obs.reached_b
    /\ \E b \in KeysB : obs.start_set = KeysA \cup {b}
    /\ obs.entered \in KeysB \ obs.start_set

\* C12 - classifier cascade: for a captured frame with any combination of
\* matched markers, both classifiers return the screen of the first step of
\* the ordered cascade that matches (a step matches when one of its markers
\* is found and its excluded marker is not), and None when no step matches;
\* a failed capture gives None.
C12_ClassifierCascade ==
    LET Step(any, absent, screen) == [any |-> any, absent |-> absent, screen |-> screen]
        steps == <<Step({"ok"}, {}, "screen_8"),
                   Step({"back"}, {}, "defeat_popup"),
                   Step({"next"}, {}, "screen_7"),
                   Step({"defeat"}, {}, "defeat_screen"),
                   Step({"close_x"}, {}, "select_expansion"),
                   Step({"entry"}, {"expansions"}, "select_expansion"),
                   Step({"expansions"}, {}, "battle_selection"),
                   Step({"opponent", "put_basic"}, {}, "battle_in_progress"),
                   Step({"auto"}, {"expansions"}, "battle_setup"),
                   Step({"tap_4_5_6"}, {}, "screens_4_5_6"),
                   Step({"tap_result"}, {}, "result_screen"),
                   Step({"hourglass"}, {}, "battle_selection")>>
        Hit(i, F) == steps[i].any \cap F # {} /\ steps[i].absent \cap F = {}
        First(F) ==
            IF \E i \in DOMAIN steps : Hit(i, F)
            THEN steps[CHOOSE i \in DOMAIN steps :
                        Hit(i, F) /\ \A j \in 1..(i - 1) : ~Hit(j, F)].screen
            ELSE None
    IN  \A out \in {cls.battle_bot, cls.state_machine} \ {Unset} :
            out = IF cls.captured THEN First(cls.found) ELSE None

\* C12 witness: a frame with the auto and battle markers and lower-priority
\* markers is classified as battle setup by both classifiers.
C12_Witness ==
    /\ {"auto", "battle", "tap_result", "hourglass"} \subseteq cls.found
    /\ cls.battle_bot = "battle_setup" /\ cls.state_machine = "battle_setup"

\* C13 - precedence: a frame in which the optional-popup marker is found,
\* together with any other markers, is classified as the optional popup.
C13_PopupPrecedence ==
    \A out \in {cls.battle_bot, cls.state_machine} \ {Unset} :
        "ok" \in cls.found => out = "screen_8"

\* C13 witness: every marker is found and both classifiers said optional
\* popup.
C13_Witness ==
    /\ cls.found = Markers
    /\ cls.battle_bot = "screen_8" /\ cls.state_machine = "screen_8"

\* C14 as stated - a frame with a catalog-entry marker and the catalog button
\* is classified as battle selection.
C14_EntryAndButton ==
    \A out \in {cls.battle_bot, cls.state_machine} \ {Unset} :
        {"entry", "expansions"} \subseteq cls.found => out = "battle_selection"

\* C14 amended - a frame with a catalog-entry marker and the catalog button,
\* and none of the markers checked before them (optional popup, defeat popup,
\* summary 'next', defeat, catalog 'close'), is classified as battle
\* selection, whatever other markers it shows; with one of those earlier
\* markers it is classified by the first of them.
C14_ExclusionProperty ==
    \A out \in {cls.battle_bot, cls.state_machine} \ {Unset} :
        {"entry", "expansions"} \subseteq cls.found
            => IF cls.found \cap {"ok", "back", "next", "defeat", "close_x"} = {}
               THEN out = "battle_selection"
               ELSE out \in {"screen_8", "defeat_popup", "screen_7", "defeat_screen",
                             "select_expansion"}
                    /\ (out = "select_expansion"
                            <=> cls.found \cap {"ok", "back", "next", "defeat"} = {})

\* C14 witness: entry marker, catalog button and later markers, classified as
\* battle selection by both classifiers.
C14_Witness ==
    /\ {"entry", "expansions", "auto", "opponent"} \subseteq cls.found
    /\ cls.battle_bot = "battle_selection" /\ cls.state_machine = "battle_selection"

\* C15 as stated - a frame in which exactly one marker is found is classified
\* as that marker's screen (the battle button's screen being battle setup),
\* and a frame with none as unknown.
C15_EverySingleMarker ==
    LET ScreenOf(m) ==
            CASE m = "ok" -> "screen_8" [] m = "back" -> "defeat_popup"
              [] m = "next" -> "screen_7" [] m = "defeat" -> "defeat_screen"
              [] m \in {"close_x", "entry"} -> "select_expansion"
              [] m \in {"expansions", "hourglass"} -> "battle_selection"
              [] m \in {"opponent", "put_basic"} -> "battle_in_progress"
              [] m \in {"auto", "battle"} -> "battle_setup"
              [] m = "tap_4_5_6" -> "screens_4_5_6"
              [] m = "tap_result" -> "result_screen"
    IN  \A out \in {cls.battle_bot, cls.state_machine} \ {Unset} :
            /\ \A m \in Markers : cls.found = {m} => out = ScreenOf(m)
            /\ cls.found = {} => out = None

\* C15 amended - a frame in which exactly one marker is found, other than the
\* battle button, is classified as that marker's screen; a frame with only
\* the battle button, or with no marker, is classified as unknown.
C15_SingleMarker ==
    LET ScreenOf(m) ==
            CASE m = "ok" -> "screen_8" [] m = "back" -> "defeat_popup"
              [] m = "next" -> "screen_7" [] m = "defeat" -> "defeat_screen"
              [] m \in {"close_x", "entry"} -> "select_expansion"
              [] m \in {"expansions", "hourglass"} -> "battle_selection"
              [] m \in {"opponent", "put_basic"} -> "battle_in_progress"
              [] m = "auto" -> "battle_setup"
              [] m = "tap_4_5_6" -> "screens_4_5_6"
              [] m = "tap_result" -> "result_screen"
              [] m = "battle" -> None
    IN  \A out \in {cls.battle_bot, cls.state_machine} \ {Unset} :
            /\ \A m \in Markers : cls.found = {m} => out = ScreenOf(m)
            /\ cls.found = {} => out = None

\* C15 witness: only the hourglass is found and both classifiers said battle
\* selection.
C15_Witness ==
    /\ cls.found = {"hourglass"} /\ cls.captured
    /\ cls.battle_bot = "battle_selection" /\ cls.state_machine = "battle_selection"

\* C18 - read-merge-write frame: after a save of slot i's set by either
\* implementation, every other slot j that the document held before the save
\* (as an entry of "bots", or as the legacy list for slot 0) is still in the
\* document with the same set, and slot i holds the set saved.
C18_SaveFrame ==
    pst.saved_by # Unset =>
        /\ doc.fmt = "multi"
        /\ PersistedSet(doc, pst.slot) = pst.arg
        /\ \A j \in SlotIds \ {pst.slot} :
            /\ (pst.before.fmt = "multi" /\ j + 1 \in DOMAIN pst.before.bots)
                    => (j + 1 \in DOMAIN doc.bots /\ doc.bots[j + 1] = pst.before.bots[j + 1])
            /\ (pst.before.fmt = "legacy" /\ j = 0)
                    => (1 \in DOMAIN doc.bots /\ doc.bots[1] = pst.before.completed)

\* C18 witness: StatePersistence saved slot 1 into a document that held
\* different non-empty sets for slots 0, 2 and 3, and the document changed.
C18_Witness ==
    /\ pst.saved_by = "StatePersistence" /\ pst.slot = 1
    /\ pst.before.fmt = "multi" /\ DOMAIN pst.before.bots = {1, 2, 3, 4}
    /\ pst.before.bots[1] = PKeys /\ pst.before.bots[3] = {FirstKey}
    /\ pst.before.bots[4] # {}
    /\ doc # pst.before

\* C19 - legacy migration: a load of slot s from a legacy single-slot
\* document returns the legacy keys for slot 0 and the empty set for slots
\* 1, 2 and 3, in both implementations.
C19_LegacyMigration ==
    (pst.loaded_by # Unset /\ pst.saved_by = Unset /\ pst.before.fmt = "legacy")
        => pst.ret = IF pst.slot = 0 THEN pst.before.completed ELSE {}

\* C20 - persistence round trip: a load of slot s that follows a save of the
\* set S for slot s returns S, whichever implementation saved and whichever
\* loaded and whatever the document was before; the saved set is stored under
\* key s + 1; and from_dict(to_dict(m)) = m.
C20_RoundTrip ==
    /\ (pst.saved_by # Unset /\ pst.loaded_by # Unset) => pst.ret = pst.arg
    /\ pst.saved_by # Unset
        => (doc.fmt = "multi" /\ pst.slot + 1 \in DOMAIN doc.bots
                /\ doc.bots[pst.slot + 1] = pst.arg)
    /\ pst.rt_done => pst.rt = pst.m

\* C20 witness: battle_bot saved a non-empty set for slot 3 over a legacy
\* document, StatePersistence loaded it back, and a state of three slots
\* went through to_dict and from_dict.
C20_Witness ==
    /\ pst.saved_by = "battle_bot" /\ pst.loaded_by = "StatePersistence"
    /\ pst.slot = 3 /\ pst.arg = PKeys /\ pst.ret = PKeys
    /\ pst.before.fmt = "legacy"
    /\ pst.rt_done /\ DOMAIN pst.rt = {0, 2, 3} /\ pst.rt[2] # {}

\* C16: the 'battle' button is never tapped in reaction to a capture that
\* shows the automation OFF-marker, neither by handle_battle_setup_screen nor
\* by the "still on setup" re-tap of wait_for_battle_completion.
C16_NoBattleTapOnOff == bs.bad_tap = FALSE

\* C17: when a verification capture taken after tapping the toggle still
\* shows the OFF-marker, handle_battle_setup_screen returns failure only
\* after it has tapped the toggle a second time.
C17_RetryOnce ==
    (bs.at = "ret" /\ bs.ret = "False" /\ bs.verify_off >= 1 /\ ~bs.tap_failed)
        => bs.on_taps = 2

\* C11 as stated: run_battle_cycle returns True exactly when the battle was
\* fought and its defeat or rewards flow finished, or when the catalog
\* search reset the completion set after exhausting both series; every other
\* return is False.
C11_TrueOnExhaustion ==
    obs.cycle # "-" =>
        (obs.cycle = "True" <=>
            (obs.ended \in {"defeat_flow", "rewards_flow"} \/ obs.did_reset))

\* C11 as the code has it: run_battle_cycle returns True exactly when the
\* battle was fought and its defeat or rewards flow finished; it returns
\* False whenever the search or the selection handler found no battle, the
\* exhaustion-and-reset case included.
C11_CycleOutcome ==
    obs.cycle # "-" =>
        /\ obs.cycle = "True" <=> obs.ended \in {"defeat_flow", "rewards_flow"}
        /\ obs.cycle = "True" => (obs.result = "battle" \/ ~obs.invoked)
        /\ obs.did_reset => obs.cycle = "False"
        /\ obs.result = "none" => obs.cycle = "False"

\* C11 witness: a cycle whose search exhausted both series, reset the
\* completion set and returned; run_battle_cycle is back at the run loop.
C11_Witness ==
    /\ pc[SearchRun] = "loop"
    /\ obs.invoked /\ obs.did_reset /\ obs.start_set = Keys
    /\ obs.result = "none" /\ obs.cycle = "False" /\ ~obs.stop_seen

\* C21 - corrupt document: a load that finds a file that is not valid JSON,
\* and whose own write of the replacement goes through, raises nothing,
\* returns the empty set for the requested slot and leaves a valid multi-slot
\* document in which every set is empty - in load_completed_expansions,
\* load_expansions and load_multi_bot_expansions alike.
C21_CorruptDocument ==
    (/\ pst.loaded_by # Unset /\ pst.saved_by = Unset /\ pst.failed_by = Unset
     /\ pst.before.fmt = "corrupt" /\ ~pst.load_write_failed)
        => /\ ~pst.raised
           /\ pst.ret = {}
           /\ doc.fmt = "multi"
           /\ DOMAIN doc.bots \subseteq 1..MAX_BOTS
           /\ \A k \in DOMAIN doc.bots : doc.bots[k] = {}

\* C21 witness: load_multi_bot_expansions was called for slot 2 on a corrupt
\* file and left the empty multi-slot document behind.
C21_Witness ==
    /\ pst.loaded_by = "load_multi_bot_expansions" /\ pst.slot = 2
    /\ pst.saved_by = Unset /\ pst.failed_by = Unset
    /\ pst.before.fmt = "corrupt" /\ ~pst.load_write_failed
    /\ doc = MultiBotExpansionState_to_dict(EmptyBots)

\* C22 - write failures are surfaced: a save whose write of the file failed
\* has raised to its caller, in StatePersistence and in battle_bot alike.
C22_WriteFailureRaises ==
    (pst.failed_by # Unset /\ pst.loaded_by = Unset) => pst.raised

\* C23 - reset signal, its last part: one marker causes one reset only, so
\* the resets performed never outnumber the markers placed.
C23_OneMarkerOneReset == rst.resets <= rst.markers

\* C24: a cycle that returns false or raises never ends BattleBot.run: once
\* the template directory was found, the loop is left only on a test of the
\* stop flag that found it set, and while the flag is clear the loop goes from
\* the end of a cycle to the delay and from the delay to the next cycle.
C24_OnlyStopEndsLoop ==
    /\ (lp.at = "exited" /\ lp.exit # "setup_failed") => (lp.exit = "stop" /\ lp.stop)
    /\ ~lp.raised
    /\ (lp.at \in {"after_cycle", "delay", "run_top"} /\ ~lp.stop)
          => ENABLED (RunAfterCycle \/ RunDelay \/ RunLoopTop)

C24_Witness ==
    /\ lp.at = "rc_entry"
    /\ lp.prev = "False"
    /\ lp.rbc = Unset
    /\ ~lp.stop

\* C25: run_cycle called with the stop flag set returns False and does not
\* call run_battle_cycle; a cycle that ends while the flag is set returns
\* False; run_cycle never raises.
C25_StopIsNormalOutcome ==
    /\ lp.entered_stopped => (lp.result = "False" /\ ~lp.invoked /\ lp.rbc = Unset)
    /\ lp.aborted => lp.result = "False"
    /\ lp.at = "after_cycle" => (lp.result \in {"True", "False"} /\ ~lp.raised)

C25_Witness ==
    /\ lp.at = "after_cycle"
    /\ lp.aborted
    /\ lp.invoked
    /\ lp.rbc = "raise"
    /\ lp.result = "False"

C25_WitnessEntry == lp.at = "after_cycle" /\ lp.entered_stopped /\ lp.result = "False"

C26_WitnessSummary ==
    /\ lp.first = "screen_7"
    /\ lp.at = "rc_exit"
    /\ lp.rbc = "True"
    /\ lp.handlers = <<"handle_screen_7", "handle_screen_8">>

C28_SlotTableBounds ==
    /\ [](/\ DOMAIN mg.bots \subseteq 0..(MAX_BOTS - 1)
          /\ Cardinality(DOMAIN mg.bots) <= MAX_BOTS
          /\ (mg.last.op = "create_bot" /\ mg.last.args # "ok") => mg.last.ret = "False")
    /\ [][(mg'.last.op = "create_bot" /\ mg'.last.args # "ok")
            => (mg'.bots = mg.bots /\ mg'.threads = mg.threads)]_vars

C28_Witness ==
    /\ mg.last.op = "create_bot"
    /\ mg.last.args = "bad_slot"
    /\ mg.last.slot = MAX_BOTS
    /\ mg.last.ret = "False"
    /\ Cardinality(DOMAIN mg.bots) = MAX_BOTS

\* C29: at any time at most one controller thread is executing cycles for a
\* slot.
C29_OneThreadPerSlot == \A s \in SlotIds : Cardinality(Executing(s)) <= 1

\* C30: a status query issues no reachability probe for an instance whose
\* is_running is false.
C30_NoProbeWhenStopped ==
    mg.last.op \in {"get_bot_status", "get_all_statuses"} => ~mg.last.probed_stopped

\* C32: an entry is added to the completion set only after the hourglass
\* search inside it ran to its scroll bound without a match; not after a
\* search cut short by a stop request, nor after a failed tap on a found
\* hourglass.
C32_MarkedOnlyWhenExhausted == obs.marked_how \in {"-", "exhausted"}

\* C31: in the catalog search every scroll and every tap is preceded by a
\* check of the stop flag made after the previous scroll or tap.
C31_StopTestBeforeEveryInput == ~fx.unchecked_input

\* C37: find_expansion_in_screen calls scroll_down at most max_scrolls times
\* in its first pass and after each reset, begins at most 2 close-and-reopen
\* resets, and cannot go on for ever: until it has returned a step is
\* possible and every step takes a capture or uses up an iteration. It
\* returns a position only when the capture just taken matched the entry's
\* marker, and None in every other case.
C37_BoundedEntryLocation ==
    fx.fn = "find_expansion_in_screen" =>
        /\ fx.scrolls <= FEIS_MAX_SCROLLS
        /\ fx.scroll_count <= FEIS_MAX_SCROLLS
        /\ fx.resets <= MAX_RESET_ATTEMPTS
        /\ fx.reset_attempt <= MAX_RESET_ATTEMPTS
        /\ fx.captures <= (1 + FEIS_MAX_SCROLLS) * (1 + MAX_RESET_ATTEMPTS)
        /\ fx.at # "returned" => ENABLED (FeisStart \/ FeisScan \/ FeisReset \/ FeisRescan)
        /\ fx.at = "returned" => fx.ret \in {"pos", "None"}
        /\ fx.ret = "pos" => fx.shot = "match"

C37_Witness ==
    /\ fx.fn = "find_expansion_in_screen"
    /\ fx.at = "returned"
    /\ fx.ret = "pos"
    /\ fx.resets = MAX_RESET_ATTEMPTS
    /\ fx.scrolls = FEIS_MAX_SCROLLS
    /\ fx.captures = (1 + FEIS_MAX_SCROLLS) * (1 + MAX_RESET_ATTEMPTS)

\* C38: find_hourglass returns after at most max_scrolls scrolls and
\* max_scrolls + 1 captures.
C38_HourglassSearchBounded ==
    fx.fn = "find_hourglass" =>
        /\ fx.scrolls <= FH_MAX_SCROLLS
        /\ fx.captures <= FH_MAX_SCROLLS + 1

\* ---------------------------------------------------------------------------
\* Claims on the two controller threads side by side (SpecPair)
\* ---------------------------------------------------------------------------

\* No thread is inside save_completed_expansions.
PairQuiet == \A t \in PairSlots : cc.th[t].at \in {"new", "again", "idle", "ended"}

\* C33: concurrent saves keep written values: when the saves of the two slots
\* have all returned, the document holds for each slot a value that slot wrote
\* or held before; no entry is dropped or replaced by a value its slot never
\* had.
C33_SavesKeepWrittenValues ==
    (cc.at = "pair" /\ PairQuiet) =>
        /\ doc.fmt = "multi"
        /\ \A t \in PairSlots :
             /\ JsonSlot(t) \in DOMAIN doc.bots
             /\ doc.bots[JsonSlot(t)] \in cc.held[t]

\* C34: slot-device binding: a device command of slot t's controller thread is
\* addressed to the device given to slot t, and a load or save made from that
\* thread uses slot t's key, whatever the other thread does.
C34_SlotDeviceBinding ==
    cc.at = "pair" =>
        \A t \in PairSlots :
            /\ cc.th[t].cmd_to \in {0, cc.device_serial[t]}
            /\ cc.th[t].key \in {NoSlot, t}
            /\ cc.th[t].at \in {"idle", "merged", "opened"} =>
                 /\ get_adb_serial(cc, t) = cc.device_serial[t]
                 /\ get_slot_id_from_serial(cc, t) = t

\* Slot 0's thread, started a second time, sends a command and saves after
\* slot 1's thread has set the global address to its own, and the port of
\* slot 0's device names another slot.
C34_Witness ==
    /\ cc.at = "pair"
    /\ cc.ADB_SERIAL = cc.device_serial[1]
    /\ cc.device_serial[0] = 5586
    /\ cc.restarts = MaxRestarts
    /\ cc.th[0].at = "idle"
    /\ cc.saves = MaxSaves
    /\ cc.th[0].cmd_to = cc.device_serial[0]
    /\ cc.th[0].key = 0
    /\ cc.th[1].at = "opened"

\* C35: the running flag tracks the newest run: while the thread started last
\* on an instance executes its loop and stop() was not called since it was
\* started, is_running is true and the status is not "Stopped", whatever an
\* earlier thread of the instance does when it ends.
C35_RunningTracksNewestRun ==
    \A s \in DOMAIN mg.bots : \A i \in DOMAIN mg.threads[s] :
        LET th == mg.threads[s][i] IN
        (th.own /\ th.cur /\ th.phase = "cycle" /\ ~th.asked) =>
            (mg.bots[s].is_running /\ mg.bots[s].status # "Stopped")

\* C36: failure status on abnormal end: when a thread of the instance ended
\* on the missing template directory or on an exception that escaped the loop,
\* the status is "Error" and error_message is a non-empty text.
C36_ErrorStatusOnAbnormalEnd ==
    \A s \in DOMAIN mg.bots :
        (/\ mg.last.op = "thread" /\ mg.last.slot = s /\ mg.last.args = "own"
         /\ mg.last.why \in {"setup_failed", "loop_error"}) =>
            /\ mg.bots[s].status = "Error"
            /\ mg.bots[s].error_message \notin {None, ""}

\* The last iteration of the wait got as far as the auto-off test with a
\* battle in progress and the auto-off marker on the capture.
AutoOffSeen(b) ==
    /\ ~b.seen.stop /\ b.seen.ok /\ ~b.seen.result
    /\ ~(b.seen.detected = "battle_setup" /\ b.seen.on_setup)
    /\ b.seen.detected # "battle_selection"
    /\ b.seen.in_battle /\ b.seen.auto_off

\* C39: auto re-enable without abort: an iteration of wait_for_battle_completion
\* that finds the battle in progress and the auto-off marker taps the marker
\* and leaves the wait polling, and the wait returns true only from an
\* iteration that saw the result marker or the battle-selection screen.
C39_ReenableWithoutAbort ==
    /\ [](bs.wret = "True" =>
            (bs.seen.result \/ bs.seen.detected = "battle_selection"))
    /\ [][(bs'.polls = bs.polls + 1 /\ AutoOffSeen(bs')) =>
            /\ bs'.at = "wait" /\ bs'.wret = Unset
            /\ bs'.reenables = bs.reenables + (IF bs'.seen.tapped THEN 1 ELSE 0)
            /\ bs'.battle_taps = bs.battle_taps]_vars

\* The wait re-enabled the automation in two iterations and then returned
\* true on the result marker.
C39_Witness ==
    /\ bs.at = "wret" /\ bs.wret = "True"
    /\ bs.reenables = 2
    /\ bs.seen.result /\ bs.seen.in_battle /\ bs.seen.auto_off

\* C40: the two classifiers agree: called on the same frame with the same
\* template tree, StateMachine.detect_current_screen and
\* detect_current_battle_screen return the same screen, None for None.
C40_ClassifiersAgree ==
    (cls.battle_bot # Unset /\ cls.state_machine # Unset) =>
        cls.battle_bot = cls.state_machine

============================================================================
